---- MODULE Spec2Model ----
(***************************************************************************)
(* Model of the OpenAQ normalisation pipeline (data_clean.py): the         *)
(* measurement identity generator, the record normaliser                   *)
(* (clean_dataframe and the coordinate fill of process_csv), the entity    *)
(* reconciler (the row loop of process_csv) and the finalisation done by   *)
(* main; and of what runs downstream of it: the aggregation pipelines and  *)
(* main of analytics.py, the plotting functions of visualizations.py, the  *)
(* download loop of data_download.py and the step runner of main.py.       *)
(*                                                                         *)
(* Strings that the code formats, concatenates or slices are sequences of  *)
(* one-character strings.  A missing cell (NaN) is the empty sequence and  *)
(* a present cell v is <<v>>.  Latitudes and longitudes are counted in     *)
(* halves (2 is 1.0) so that the median of two raw values is an integer;   *)
(* measurement values are counted in tenths (55 is 5.5).                   *)
(***************************************************************************)
EXTENDS Integers, Sequences, FiniteSets, TLC

VARIABLES
    csv_files,      \* main: the list glob returned, one raw batch per file
    file_idx,       \* main: number of files handed to process_csv so far
    df,             \* process_csv: the cleaned, coordinate-filled frame
    row_idx,        \* process_csv: rows of df already iterated
    locations,      \* module global: locationId -> location doc
    sensors,        \* module global: sensorId -> sensor doc
    measurements,   \* module global: list of measurement docs
    written,        \* main: the three output files, <<>> until written
    pc,             \* control position of main / process_csv
    raw_batch,      \* normaliser run: the raw batch read from one csv
    norm_df,        \* normaliser run: the frame after each stage
    norm_pc,        \* normaliser run: stage reached
    ts_in,          \* timestamp run: the raw datetime cell
    ts_out,         \* timestamp run: the utc column value, <<>> before
    id_calls,       \* identity run: the calls of make_measurement_id so far
    db_measurements,\* store: the measurements collection, in insertion order
    db_sensors,     \* store: the sensors collection, in insertion order
    query,          \* analytics: the pipeline call made last, <<>> before
    results,        \* analytics: what that call returned
    earlier,        \* analytics: what the same call returned the time before
    run_pc,         \* main.py: control position of main / run_step
    step_log,       \* main.py: the steps started so far, with exit status
    fetches,        \* data_download.py: return codes of the aws runs so far
    extractions,    \* data_download.py: calls of extract_gz_files so far
    complete_printed, \* main.py: "Pipeline complete. " was printed
    main_pc,        \* analytics.main: statements executed so far
    main_state,     \* analytics.main: running, complete or the error raised
    main_env,       \* analytics.main: the local result variables assigned
    saved,          \* analytics.main: the calls of save_results, in order
    plot_call,      \* plotting run: the call, function and arguments
    plot_return     \* plotting run: <<>> before, then the outcome

vars == <<csv_files, file_idx, df, row_idx, locations, sensors, measurements,
          written, pc, raw_batch, norm_df, norm_pc, ts_in, ts_out, id_calls,
          db_measurements, db_sensors, query, results, earlier,
          run_pc, step_log, fetches, extractions, complete_printed,
          main_pc, main_state, main_env, saved, plot_call, plot_return>>

reconcilerVars == <<csv_files, file_idx, df, row_idx, locations, sensors,
                    measurements, written, pc>>
normVars == <<raw_batch, norm_df, norm_pc>>
tsVars == <<ts_in, ts_out>>
storeVars == <<db_measurements, db_sensors>>
analyticsVars == <<query, results, earlier>>
orchestratorVars == <<run_pc, step_log, fetches, extractions, complete_printed>>
mainVars == <<main_pc, main_state, main_env, saved>>
plotVars == <<plot_call, plot_return>>
upstreamVars == <<reconcilerVars, normVars, tsVars, id_calls>>
downstreamVars == <<storeVars, analyticsVars, orchestratorVars, mainVars,
                    plotVars>>

----------------------------------------------------------------------------
(* Bounds of the model                                                     *)

MaxFiles == 2        \* csv files found by main
MaxTotalRows == 3    \* rows of all csv files together in a run of main
MaxRows == 3         \* rows of the batch in a normaliser run
MaxCalls == 3        \* calls of make_measurement_id in an identity run

----------------------------------------------------------------------------
(* Sequences and text                                                      *)

Range(s) == {s[i] : i \in 1..Len(s)}

SeqsUpTo(S, n) == UNION {[1..k -> S] : k \in 0..n}

DigitChars == <<"0", "1", "2", "3", "4", "5", "6", "7", "8", "9">>

Digit(d) == DigitChars[d + 1]

DigitValue(c) == CHOOSE d \in 0..9 : DigitChars[d + 1] = c

IsDigit(c) == \E d \in 0..9 : DigitChars[d + 1] = c

RECURSIVE NatStr(_)
NatStr(n) == IF n < 10 THEN <<Digit(n)>>
             ELSE NatStr(n \div 10) \o <<Digit(n % 10)>>

\* str(int) / "{:d}"
IntStr(n) == IF n < 0 THEN <<"-">> \o NatStr(0 - n) ELSE NatStr(n)

\* str(float) of a float cell whose value is given in tenths:
\* <<55>> -> "5.5", <<-5>> -> "-0.5", <<120>> -> "12.0", NaN -> "nan"
FloatStr(cell) ==
    IF cell = <<>> THEN <<"n", "a", "n">>
    ELSE LET v == cell[1]
             a == IF v < 0 THEN 0 - v ELSE v
         IN  (IF v < 0 THEN <<"-">> ELSE <<>>)
             \o NatStr(a \div 10) \o <<".">> \o <<Digit(a % 10)>>

\* strftime's zero-padded fields %m %d %H %M %S and %Y
Pad2(n) == <<Digit((n \div 10) % 10), Digit(n % 10)>>

Pad4(n) == <<Digit((n \div 1000) % 10), Digit((n \div 100) % 10),
             Digit((n \div 10) % 10), Digit(n % 10)>>

----------------------------------------------------------------------------
(* Timestamps: pd.to_datetime(..., utc=True, errors="coerce") and          *)
(* Series.dt.strftime("%Y-%m-%dT%H:%M:%SZ")                                *)

\* A raw datetime cell: ISO-8601 text with a UTC offset in minutes, a
\* missing cell, or text that is no timestamp.
IsoCell(y, mo, d, h, mi, s, off) ==
    [kind |-> "iso", y |-> y, mo |-> mo, d |-> d, h |-> h, mi |-> mi, s |-> s,
     off |-> off]

NaNCell == [kind |-> "nan", y |-> 0, mo |-> 0, d |-> 0, h |-> 0, mi |-> 0,
            s |-> 0, off |-> 0]

BadCell == [kind |-> "bad", y |-> 0, mo |-> 0, d |-> 0, h |-> 0, mi |-> 0,
            s |-> 0, off |-> 0]

\* Days of the proleptic Gregorian calendar since 1970-01-01.
DaysFromCivil(y, mo, d) ==
    LET yy  == IF mo <= 2 THEN y - 1 ELSE y
        era == yy \div 400
        yoe == yy - era * 400
        mp  == IF mo > 2 THEN mo - 3 ELSE mo + 9
        doy == (153 * mp + 2) \div 5 + d - 1
        doe == yoe * 365 + yoe \div 4 - yoe \div 100 + doy
    IN  era * 146097 + doe - 719468

CivilFromDays(z) ==
    LET zz  == z + 719468
        era == zz \div 146097
        doe == zz - era * 146097
        yoe == (doe - doe \div 1460 + doe \div 36524 - doe \div 146096) \div 365
        doy == doe - (365 * yoe + yoe \div 4 - yoe \div 100)
        mp  == (5 * doy + 2) \div 153
        d   == doy - (153 * mp + 2) \div 5 + 1
        mo  == IF mp < 10 THEN mp + 3 ELSE mp - 9
        y   == yoe + era * 400 + (IF mo <= 2 THEN 1 ELSE 0)
    IN  [y |-> y, mo |-> mo, d |-> d]

\* Faulty variant of ToUtc: the offset is added instead of subtracted.
ToUtcAddsOffset(cell) ==
    DaysFromCivil(cell.y, cell.mo, cell.d) * 86400
    + (cell.h * 60 + cell.mi + cell.off) * 60 + cell.s

\* The offset-aware instant of an ISO cell, in seconds since the epoch:
\* the wall-clock reading minus its offset.
ToUtc(cell) ==
    DaysFromCivil(cell.y, cell.mo, cell.d) * 86400
    + (cell.h * 60 + cell.mi - cell.off) * 60 + cell.s

\* pd.to_datetime with errors="coerce": <<instant>>, or <<>> (NaT) for a
\* cell that does not parse.
to_datetime(cell) == IF cell.kind = "iso" THEN <<ToUtc(cell)>> ELSE <<>>

\* strftime("%Y-%m-%dT%H:%M:%SZ") of a UTC instant
strftime(t) ==
    LET c   == CivilFromDays(t \div 86400)
        sod == t % 86400
    IN  Pad4(c.y) \o <<"-">> \o Pad2(c.mo) \o <<"-">> \o Pad2(c.d) \o <<"T">>
        \o Pad2(sod \div 3600) \o <<":">> \o Pad2((sod % 3600) \div 60)
        \o <<":">> \o Pad2(sod % 60) \o <<"Z">>

----------------------------------------------------------------------------
(* Identity generator                                                      *)

Sep == <<"|">>

\* Faulty variant of MeasurementKey: the value is left out of the key.
MeasurementKeyWithoutValue(location_id, sensor_id, parameter, utc_str, value) ==
    IntStr(location_id) \o Sep \o IntStr(sensor_id) \o Sep \o parameter
    \o Sep \o utc_str

\* key = f"{location_id}|{sensor_id}|{parameter}|{utc_str}|{value}"
MeasurementKey(location_id, sensor_id, parameter, utc_str, value) ==
    IntStr(location_id) \o Sep \o IntStr(sensor_id) \o Sep \o parameter
    \o Sep \o utc_str \o Sep \o FloatStr(value)

\* The first 12 hex characters of the SHA-1 digest, taken as collision-free:
\* the digest prefix of a key stands for the key.
Sha1Hex12(key) == key

make_measurement_id(location_id, sensor_id, parameter, utc_str, value) ==
    <<"m", "_">>
    \o Sha1Hex12(MeasurementKey(location_id, sensor_id, parameter, utc_str,
                                value))

----------------------------------------------------------------------------
(* Record normaliser: clean_dataframe and the coordinate fill              *)

\* A raw row holds the nine csv columns.  location_id, sensors_id, lat, lon
\* and value are <<>> (NaN) or <<number>>; parameter is <<>> or <<text>>;
\* location and units are text; datetime is a datetime cell.
IsNa(cell) == cell = <<>>

MissingCritical(row) ==
    \/ IsNa(row.location_id)
    \/ IsNa(row.sensors_id)
    \/ row.datetime.kind = "nan"
    \/ IsNa(row.parameter)
    \/ IsNa(row.value)

MissingAllCritical(row) ==
    /\ IsNa(row.location_id)
    /\ IsNa(row.sensors_id)
    /\ row.datetime.kind = "nan"
    /\ IsNa(row.parameter)
    /\ IsNa(row.value)

\* Faulty variant of dropna: how="all", a row is dropped only when all five
\* fields are missing.
dropna_how_all(rows) ==
    LET Keep(r) == ~MissingAllCritical(r) /\ ~IsNa(r.value)
    IN  SelectSeq(rows, Keep)

\* df.dropna(subset=[...]) and df[df["value"].notna()]
dropna(rows) ==
    LET Keep(r) == ~MissingCritical(r) /\ ~IsNa(r.value)
    IN  SelectSeq(rows, Keep)

\* dt = pd.to_datetime(...); df = df[dt.notna()]; df["utc"] = dt.dt.strftime(...)
WithUtc(row) ==
    [location_id |-> row.location_id, sensors_id |-> row.sensors_id,
     location |-> row.location, datetime |-> row.datetime, lat |-> row.lat,
     lon |-> row.lon, parameter |-> row.parameter, units |-> row.units,
     value |-> row.value, utc |-> strftime(to_datetime(row.datetime)[1])]

parse_datetimes(rows) ==
    LET Valid(r) == to_datetime(r.datetime) # <<>>
        kept     == SelectSeq(rows, Valid)
    IN  [i \in 1..Len(kept) |-> WithUtc(kept[i])]

\* subset=["location_id", "sensors_id", "parameter", "utc"]
DedupKey(row) == <<row.location_id, row.sensors_id, row.parameter, row.utc>>

RECURSIVE DropFrom(_, _)
DropFrom(rows, seen) ==
    IF rows = <<>> THEN <<>>
    ELSE IF DedupKey(Head(rows)) \in seen
         THEN DropFrom(Tail(rows), seen)
         ELSE <<Head(rows)>>
              \o DropFrom(Tail(rows), seen \cup {DedupKey(Head(rows))})

RECURSIVE KeepLastOf(_)
KeepLastOf(rows) ==
    IF rows = <<>> THEN <<>>
    ELSE IF \E j \in 2..Len(rows) : DedupKey(rows[j]) = DedupKey(rows[1])
         THEN KeepLastOf(Tail(rows))
         ELSE <<Head(rows)>> \o KeepLastOf(Tail(rows))

\* Faulty variant of drop_duplicates: keep="last".
drop_duplicates_last(rows) == KeepLastOf(rows)

\* df.drop_duplicates(subset=[...]), keep="first"
drop_duplicates(rows) == DropFrom(rows, {})

clean_dataframe(rows) == drop_duplicates(parse_datetimes(dropna(rows)))

\* Faulty variant of median: the upper of the two middle values is taken
\* for a series of even length.
median_upper(vals) ==
    LET srt == SortSeq(vals, <)
        n   == Len(srt)
    IN  IF n = 0 THEN <<>> ELSE <<srt[n \div 2 + 1]>>

\* Series.median(): NaN skipped; NaN (<<>>) for a series with no value.
\* vals holds the non-missing values of the series, in halves.
median(vals) ==
    LET srt == SortSeq(vals, <)
        n   == Len(srt)
    IN  IF n = 0 THEN <<>>
        ELSE IF n % 2 = 1 THEN <<srt[(n + 1) \div 2]>>
        ELSE <<(srt[n \div 2] + srt[n \div 2 + 1]) \div 2>>

\* The lat or lon cell of a row
Cell(row, col) == IF col = "lat" THEN row.lat ELSE row.lon

\* The non-missing values of a column in the group of one location_id
GroupValues(rows, loc, col) ==
    LET InGroup(r) == r.location_id = loc /\ ~IsNa(Cell(r, col))
        grp        == SelectSeq(rows, InGroup)
    IN  [i \in 1..Len(grp) |-> Cell(grp[i], col)[1]]

\* s.fillna(s.median()) on the group of one location_id
FillCell(rows, row, col) ==
    IF IsNa(Cell(row, col))
    THEN median(GroupValues(rows, row.location_id, col))
    ELSE Cell(row, col)

\* df["lat"] = groupby("location_id")["lat"].transform(...); then df["lon"]
fill_coordinates(rows) ==
    [i \in 1..Len(rows) |->
        [rows[i] EXCEPT !.lat = FillCell(rows, rows[i], "lat"),
                        !.lon = FillCell(rows, rows[i], "lon")]]

----------------------------------------------------------------------------
(* Entity reconciler: the row loop of process_csv                          *)

\* The dicts locations and sensors keep insertion order: each is the
\* sequence of its docs, at most one per key.
LocationIds(locs) == {locs[i].locationId : i \in 1..Len(locs)}

SensorIds(sens) == {sens[i].sensorId : i \in 1..Len(sens)}

None == <<>>

\* lat = float(row["lat"]) if not pd.isna(row["lat"]) else None; coords
Coordinates(row) ==
    IF IsNa(row.lat) \/ IsNa(row.lon) THEN None
    ELSE <<[latitude |-> row.lat[1], longitude |-> row.lon[1]]>>

LocationDoc(row) ==
    [locationId |-> row.location_id[1], location |-> row.location,
     coordinates |-> Coordinates(row)]

\* Faulty variant of SensorDoc: locationId is given the sensor id.
SensorDocLocationFromSensor(row) ==
    [sensorId |-> row.sensors_id[1], locationId |-> row.sensors_id[1],
     parameter |-> row.parameter[1], unit |-> row.units]

SensorDoc(row) ==
    [sensorId |-> row.sensors_id[1], locationId |-> row.location_id[1],
     parameter |-> row.parameter[1], unit |-> row.units]

MeasurementDoc(row) ==
    [measurementId |->
         make_measurement_id(row.location_id[1], row.sensors_id[1],
                             row.parameter[1], row.utc, row.value),
     locationId |-> row.location_id[1], sensorId |-> row.sensors_id[1],
     parameter |-> row.parameter[1], value |-> row.value,
     date |-> [utc |-> row.utc]]

\* Faulty variant of RegisterLocation: locations[loc_id] is assigned for
\* every row, so a later row replaces the doc.
RegisterLocationOverwrite(locs, row) ==
    IF row.location_id[1] \in LocationIds(locs)
    THEN [i \in 1..Len(locs) |->
             IF locs[i].locationId = row.location_id[1] THEN LocationDoc(row)
             ELSE locs[i]]
    ELSE Append(locs, LocationDoc(row))

\* Faulty variant of RegisterLocation: a location whose coordinates are
\* unknown is not stored.
RegisterLocationKnownOnly(locs, row) ==
    IF row.location_id[1] \in LocationIds(locs) \/ Coordinates(row) = None
    THEN locs
    ELSE Append(locs, LocationDoc(row))

\* if loc_id not in locations: locations[loc_id] = {...}
RegisterLocation(locs, row) ==
    IF row.location_id[1] \in LocationIds(locs) THEN locs
    ELSE Append(locs, LocationDoc(row))

\* if sensor_id not in sensors: sensors[sensor_id] = {...}
RegisterSensor(sens, row) ==
    IF row.sensors_id[1] \in SensorIds(sens) THEN sens
    ELSE Append(sens, SensorDoc(row))

\* measurements.append({...})
AppendMeasurement(meas, row) == Append(meas, MeasurementDoc(row))

\* locations_list.sort(key=...), sensors_list.sort(key=...): list.sort is
\* stable, SortSeq is an insertion sort that never swaps equal keys.
\* Faulty variant of SortByLocationId: the list is left in insertion order.
SortByLocationIdOmitted(docs) == docs

SortByLocationId(docs) ==
    SortSeq(docs, LAMBDA a, b : a.locationId < b.locationId)

SortBySensorId(docs) ==
    SortSeq(docs, LAMBDA a, b : a.sensorId < b.sensorId)

----------------------------------------------------------------------------
(* Raw data of the runs                                                    *)

PM25 == <<"p", "m", "2", "5">>

O3 == <<"o", "3">>

RawRow(loc, sen, name, dt, lat, lon, par, unit, val) ==
    [location_id |-> loc, sensors_id |-> sen, location |-> name,
     datetime |-> dt, lat |-> lat, lon |-> lon, parameter |-> par,
     units |-> unit, value |-> val]

\* 2020-01-01T01:00:00-07:00 and 2020-01-01T08:00:00+00:00 are one instant;
\* 2020-01-01T23:30:00-01:00 falls on the next UTC day.
StampA == IsoCell(2020, 1, 1, 1, 0, 0, -420)

StampB == IsoCell(2020, 1, 1, 8, 0, 0, 0)

StampC == IsoCell(2020, 1, 1, 23, 30, 0, -60)

\* Rows of the csv files of a run of main: two rows of location 1 and
\* sensor 10 at one instant that differ in every other column, a row of
\* location 2 that reuses sensor 10, a row whose timestamp is no timestamp,
\* a row without a value and a row without a location id.
ReconcilerRows ==
    { RawRow(<<1>>, <<10>>, "Alpha", StampA, <<>>, <<>>, <<PM25>>, "ug", <<50>>),
      RawRow(<<1>>, <<10>>, "Beta", StampB, <<2>>, <<4>>, <<PM25>>, "ppm", <<75>>),
      RawRow(<<2>>, <<10>>, "Gamma", StampC, <<6>>, <<8>>, <<O3>>, "ppm", <<50>>),
      RawRow(<<2>>, <<11>>, "Gamma", BadCell, <<6>>, <<8>>, <<O3>>, "ppm", <<20>>),
      RawRow(<<3>>, <<12>>, "Delta", StampA, <<2>>, <<2>>, <<PM25>>, "ug", <<>>),
      RawRow(<<>>, <<13>>, "Delta", StampA, <<2>>, <<2>>, <<PM25>>, "ug", <<50>>) }

\* The lists of k csv files that hold at most n rows together.
RECURSIVE CsvFileLists(_, _)
CsvFileLists(k, n) ==
    IF k = 0 THEN {<<>>}
    ELSE UNION { {<<batch>> \o rest : rest \in CsvFileLists(k - 1, n - Len(batch))} :
                 batch \in SeqsUpTo(ReconcilerRows, n) }

----------------------------------------------------------------------------
(* Values of the variables of the parts that do not run in a specification *)

\* Nothing downstream of the normalisation has run
StoreIdle ==
    /\ db_measurements = <<>>
    /\ db_sensors = <<>>

AnalyticsIdle ==
    /\ query = <<>>
    /\ results = [raised |-> <<>>, returned |-> <<>>]
    /\ earlier = <<>>

OrchestratorIdle ==
    /\ run_pc = "idle"
    /\ step_log = <<>>
    /\ fetches = <<>>
    /\ extractions = 0
    /\ complete_printed = FALSE

MainIdle ==
    /\ main_pc = 0
    /\ main_state = "idle"
    /\ main_env = <<>>
    /\ saved = <<>>

PlotIdle ==
    /\ plot_call = <<>>
    /\ plot_return = <<>>

DownstreamIdle ==
    /\ StoreIdle
    /\ AnalyticsIdle
    /\ OrchestratorIdle
    /\ MainIdle
    /\ PlotIdle

NormaliserIdle ==
    /\ raw_batch = <<>>
    /\ norm_df = <<>>
    /\ norm_pc = "idle"

TimestampIdle ==
    /\ ts_in = NaNCell
    /\ ts_out = <<>>

----------------------------------------------------------------------------
(* main and process_csv of data_clean.py                                   *)

Init ==
    /\ csv_files \in UNION {CsvFileLists(k, MaxTotalRows) : k \in 0..MaxFiles}
    /\ file_idx = 0
    /\ df = <<>>
    /\ row_idx = 0
    /\ locations = <<>>
    /\ sensors = <<>>
    /\ measurements = <<>>
    /\ written = <<>>
    /\ pc = "loop"
    /\ NormaliserIdle
    /\ TimestampIdle
    /\ id_calls = <<>>
    /\ DownstreamIdle

\* Faulty variant of ProcessCsvEmpty: reading a file without rows raises.
ProcessCsvEmptyRaises ==
    /\ pc = "loop"
    /\ file_idx < Len(csv_files)
    /\ csv_files[file_idx + 1] = <<>>
    /\ file_idx' = file_idx + 1
    /\ pc' = "raised"
    /\ UNCHANGED <<csv_files, df, row_idx, locations, sensors, measurements,
                   written>>
    /\ UNCHANGED <<normVars, tsVars, id_calls>>
    /\ UNCHANGED downstreamVars

\* process_csv on a file without rows: df.empty, return
ProcessCsvEmpty ==
    /\ pc = "loop"
    /\ file_idx < Len(csv_files)
    /\ csv_files[file_idx + 1] = <<>>
    /\ file_idx' = file_idx + 1
    /\ UNCHANGED <<csv_files, df, row_idx, locations, sensors, measurements,
                   written, pc>>
    /\ UNCHANGED <<normVars, tsVars, id_calls>>
    /\ UNCHANGED downstreamVars

\* process_csv up to the row loop: read, clean, fill the coordinates
ProcessCsvClean ==
    /\ pc = "loop"
    /\ file_idx < Len(csv_files)
    /\ csv_files[file_idx + 1] # <<>>
    /\ file_idx' = file_idx + 1
    /\ df' = fill_coordinates(clean_dataframe(csv_files[file_idx + 1]))
    /\ row_idx' = 0
    /\ pc' = "rows"
    /\ UNCHANGED <<csv_files, locations, sensors, measurements, written>>
    /\ UNCHANGED <<normVars, tsVars, id_calls>>
    /\ UNCHANGED downstreamVars

\* int(row["location_id"]) and int(row["sensors_id"]) raise ValueError on
\* NaN; float(row["value"]) does not.
RowRaises(row) == IsNa(row.location_id) \/ IsNa(row.sensors_id)

\* One iteration of "for idx, row in df.iterrows()".  An exception leaves
\* process_csv and main: nothing is written.
ProcessCsvRow ==
    /\ pc = "rows"
    /\ row_idx < Len(df)
    /\ LET row == df[row_idx + 1]
       IN  IF RowRaises(row)
           THEN /\ pc' = "raised"
                /\ UNCHANGED <<locations, sensors, measurements, row_idx>>
           ELSE /\ locations' = RegisterLocation(locations, row)
                /\ sensors' = RegisterSensor(sensors, row)
                /\ measurements' = AppendMeasurement(measurements, row)
                /\ row_idx' = row_idx + 1
                /\ pc' = pc
    /\ UNCHANGED <<csv_files, file_idx, df, written>>
    /\ UNCHANGED <<normVars, tsVars, id_calls>>
    /\ UNCHANGED downstreamVars

\* The row loop is exhausted: process_csv returns to the loop of main
ProcessCsvReturn ==
    /\ pc = "rows"
    /\ row_idx = Len(df)
    /\ df' = <<>>
    /\ row_idx' = 0
    /\ pc' = "loop"
    /\ UNCHANGED <<csv_files, file_idx, locations, sensors, measurements,
                   written>>
    /\ UNCHANGED <<normVars, tsVars, id_calls>>
    /\ UNCHANGED downstreamVars

\* main after the loop: sort the two lists, write the three files
WriteOutputs ==
    /\ pc = "loop"
    /\ file_idx = Len(csv_files)
    /\ written' = <<[locations |-> SortByLocationId(locations),
                     sensors |-> SortBySensorId(sensors),
                     measurements |-> measurements]>>
    /\ pc' = "done"
    /\ UNCHANGED <<csv_files, file_idx, df, row_idx, locations, sensors,
                   measurements>>
    /\ UNCHANGED <<normVars, tsVars, id_calls>>
    /\ UNCHANGED downstreamVars

Next ==
    \/ ProcessCsvEmpty
    \/ ProcessCsvClean
    \/ ProcessCsvRow
    \/ ProcessCsvReturn
    \/ WriteOutputs

Spec == Init /\ [][Next]_vars

----------------------------------------------------------------------------
(* A run of the normaliser on one batch: process_csv up to the row loop,   *)
(* one stage per step (specification SpecNorm)                             *)

StampD == IsoCell(2020, 1, 2, 12, 0, 0, 330)

\* Rows of location 1 and sensor 10: readings at three instants (StampA and
\* StampB are one instant, with different values), each with the
\* coordinates (1.0, 2.0), (3.0, 4.0) or none; and single rows: location 2
\* with and without coordinates, a row whose timestamp is no timestamp, a
\* row without a value at the instant of StampA, a row that lacks only its
\* latitude.
NormReadings == { <<StampA, <<50>>>>, <<StampB, <<75>>>>, <<StampC, <<50>>>>,
                  <<StampD, <<50>>>> }

NormCoordinates == { <<<<2>>, <<4>>>>, <<<<6>>, <<8>>>>, <<<<>>, <<>>>> }

NormRows ==
    { RawRow(<<1>>, <<10>>, "Alpha", rd[1], co[1], co[2], <<PM25>>, "ug", rd[2]) :
        rd \in NormReadings, co \in NormCoordinates }
    \cup
    { RawRow(<<2>>, <<10>>, "Gamma", StampA, <<10>>, <<12>>, <<PM25>>, "ug", <<50>>),
      RawRow(<<2>>, <<10>>, "Gamma", StampC, <<>>, <<>>, <<PM25>>, "ug", <<50>>),
      RawRow(<<1>>, <<10>>, "Alpha", BadCell, <<6>>, <<8>>, <<PM25>>, "ug", <<50>>),
      RawRow(<<1>>, <<10>>, "Alpha", StampA, <<6>>, <<8>>, <<PM25>>, "ug", <<>>),
      RawRow(<<1>>, <<10>>, "Alpha", StampD, <<>>, <<4>>, <<PM25>>, "ug", <<60>>) }

ReconcilerIdle ==
    /\ csv_files = <<>>
    /\ file_idx = 0
    /\ df = <<>>
    /\ row_idx = 0
    /\ locations = <<>>
    /\ sensors = <<>>
    /\ measurements = <<>>
    /\ written = <<>>
    /\ pc = "idle"

InitNorm ==
    /\ raw_batch \in SeqsUpTo(NormRows, MaxRows)
    /\ norm_df = <<>>
    /\ norm_pc = "read"
    /\ ReconcilerIdle
    /\ TimestampIdle
    /\ id_calls = <<>>
    /\ DownstreamIdle

\* if df.empty: return
NormEmpty ==
    /\ norm_pc = "read"
    /\ raw_batch = <<>>
    /\ norm_pc' = "returned"
    /\ UNCHANGED <<raw_batch, norm_df, reconcilerVars, tsVars, id_calls>>
    /\ UNCHANGED downstreamVars

\* df = clean_dataframe(df)
NormClean ==
    /\ norm_pc = "read"
    /\ raw_batch # <<>>
    /\ norm_df' = clean_dataframe(raw_batch)
    /\ norm_pc' = "cleaned"
    /\ UNCHANGED <<raw_batch, reconcilerVars, tsVars, id_calls>>
    /\ UNCHANGED downstreamVars

\* the two groupby("location_id") transforms
NormFill ==
    /\ norm_pc = "cleaned"
    /\ norm_df' = fill_coordinates(norm_df)
    /\ norm_pc' = "filled"
    /\ UNCHANGED <<raw_batch, reconcilerVars, tsVars, id_calls>>
    /\ UNCHANGED downstreamVars

NextNorm ==
    \/ NormEmpty
    \/ NormClean
    \/ NormFill

SpecNorm == InitNorm /\ [][NextNorm]_vars

----------------------------------------------------------------------------
(* One timestamp through clean_dataframe and the row loop                  *)
(* (specification SpecTs)                                                  *)

StampYears == {2019, 2020}

StampMonths == {1, 2, 3, 12}

StampDays == {1, 28, 29, 31}

StampHours == {0, 1, 23}

StampMinutes == {0, 30}

StampSeconds == {0, 59}

StampOffsets == {-420, 0, 60, 330}

IsLeap(y) == (y % 4 = 0 /\ y % 100 # 0) \/ y % 400 = 0

DaysInMonth(y, mo) ==
    IF mo = 2 THEN (IF IsLeap(y) THEN 29 ELSE 28)
    ELSE IF mo \in {4, 6, 9, 11} THEN 30 ELSE 31

StampCells ==
    { IsoCell(y, mo, d, h, mi, sec, off) :
        y \in StampYears, mo \in StampMonths,
        d \in StampDays, h \in StampHours, mi \in StampMinutes,
        sec \in StampSeconds, off \in StampOffsets }

InitTs ==
    /\ ts_in \in {c \in StampCells : c.d <= DaysInMonth(c.y, c.mo)}
    /\ ts_out = <<>>
    /\ ReconcilerIdle
    /\ NormaliserIdle
    /\ id_calls = <<>>
    /\ DownstreamIdle

\* The date.utc stored for a one-row batch that carries the timestamp
StoredUtc(cell) ==
    LET rows == clean_dataframe(
                    <<RawRow(<<1>>, <<10>>, "Alpha", cell, <<2>>, <<4>>,
                             <<PM25>>, "ug", <<50>>)>>)
    IN  IF rows = <<>> THEN <<>> ELSE <<MeasurementDoc(rows[1]).date.utc>>

TsStore ==
    /\ ts_out = <<>>
    /\ ts_out' = StoredUtc(ts_in)
    /\ ts_out' # <<>>
    /\ UNCHANGED <<ts_in, reconcilerVars, normVars, id_calls>>
    /\ UNCHANGED downstreamVars

NextTs == TsStore

SpecTs == InitTs /\ [][NextTs]_vars

\* {"$substr": ["$date.utc", 0, 10]}: the grouping key of the daily pipelines
DayKey(utc) == SubSeq(utc, 1, 10)

----------------------------------------------------------------------------
(* Calls of make_measurement_id (specification SpecId)                     *)

IdLocations == {1, 11}

IdSensors == {1, 11}

IdParameters == { <<"1">>, <<"1", "|", "1">> }

IdStamps == { strftime(ToUtc(StampA)), strftime(ToUtc(StampC)) }

IdValues == { <<5>>, <<-5>> }

IdArgs ==
    { <<l, n, p, u, v>> : l \in IdLocations, n \in IdSensors,
                          p \in IdParameters, u \in IdStamps, v \in IdValues }

InitId ==
    /\ id_calls = <<>>
    /\ ReconcilerIdle
    /\ NormaliserIdle
    /\ TimestampIdle
    /\ DownstreamIdle

IdCall ==
    /\ Len(id_calls) < MaxCalls
    /\ \E a \in IdArgs :
          id_calls' =
              Append(id_calls,
                     [args |-> a,
                      id |-> make_measurement_id(a[1], a[2], a[3], a[4], a[5])])
    /\ UNCHANGED <<reconcilerVars, normVars, tsVars>>
    /\ UNCHANGED downstreamVars

NextId == IdCall

SpecId == InitId /\ [][NextId]_vars

----------------------------------------------------------------------------
(* Properties of the identity generator (specification SpecId)             *)

\* C4: make_measurement_id is a function of its five arguments alone and,
\* the digest prefix being collision-free, injective: among the calls made
\* so far, in any order, two calls return the same id exactly when their
\* five-tuples are equal.
C4_IdPureInjective ==
    \A i, j \in 1..Len(id_calls) :
        (id_calls[i].args = id_calls[j].args) <=> (id_calls[i].id = id_calls[j].id)

DifferingFields(a, b) == {k \in 1..5 : a[k] # b[k]}

\* Three calls: the third repeats the five-tuple of the first after a call
\* that differs from it in the value alone.
C4_Witness ==
    /\ Len(id_calls) = 3
    /\ id_calls[1].args = id_calls[3].args
    /\ DifferingFields(id_calls[1].args, id_calls[2].args) = {5}
    /\ id_calls[1].id = id_calls[3].id
    /\ id_calls[1].id # id_calls[2].id

----------------------------------------------------------------------------
(* Properties of the reconciler (specification Spec)                       *)

LocationOf(locs, id) == locs[CHOOSE i \in 1..Len(locs) : locs[i].locationId = id]

SensorOf(sens, id) == sens[CHOOSE i \in 1..Len(sens) : sens[i].sensorId = id]

\* The row the loop of process_csv has just finished.
LastRow == df[row_idx]

\* C1: in every state, between two rows of a batch included, each
\* measurement's locationId is a key of locations and its sensorId a key of
\* sensors: a row's entities are registered in the step that appends its
\* measurement, or earlier.
C1_ReferentialIntegrity ==
    \A i \in 1..Len(measurements) :
        /\ measurements[i].locationId \in LocationIds(locations)
        /\ measurements[i].sensorId \in SensorIds(sensors)

\* A state between two rows of one batch, the first of which has appended
\* its measurement and registered a location without coordinates.
C1_Witness ==
    /\ pc = "rows"
    /\ row_idx >= 1
    /\ row_idx < Len(df)
    /\ measurements # <<>>
    /\ Coordinates(LastRow) = None
    /\ LocationOf(locations, LastRow.location_id[1]).coordinates = None

\* C2: a location or sensor doc, once registered, is never changed and never
\* removed by any later step, whatever the later rows carry.
C2_FirstSeenWins ==
    [][ /\ \A id \in LocationIds(locations) :
              /\ id \in LocationIds(locations')
              /\ LocationOf(locations', id) = LocationOf(locations, id)
        /\ \A id \in SensorIds(sensors) :
              /\ id \in SensorIds(sensors')
              /\ SensorOf(sensors', id) = SensorOf(sensors, id) ]_vars

\* A row of a later batch has been processed that carries coordinates, another
\* name and another unit for a location registered with coordinates None
\* and a sensor registered before.
C2_Witness ==
    /\ pc = "rows"
    /\ file_idx = 2
    /\ row_idx >= 1
    /\ Coordinates(LastRow) # None
    /\ LocationOf(locations, LastRow.location_id[1]).coordinates = None
    /\ LocationOf(locations, LastRow.location_id[1]).location # LastRow.location
    /\ SensorOf(sensors, LastRow.sensors_id[1]) # SensorDoc(LastRow)

MeasurementTuple(m) == <<m.locationId, m.sensorId, m.parameter, m.date.utc>>

\* C3: no two records of measurements share the tuple
\* (locationId, sensorId, parameter, date.utc).
C3_MeasurementUniqueness ==
    \A i, j \in 1..Len(measurements) :
        MeasurementTuple(measurements[i]) = MeasurementTuple(measurements[j])
            => i = j

\* A row-level defect: a required field is missing or the timestamp is no
\* timestamp.
Defective(r) ==
    \/ r.location_id = <<>>
    \/ r.sensors_id = <<>>
    \/ r.parameter = <<>>
    \/ r.value = <<>>
    \/ r.datetime.kind # "iso"

\* The normalized (locationId, sensorId, parameter, utc) tuple of a row
\* without defect.
NormTuple(r) ==
    <<r.location_id[1], r.sensors_id[1], r.parameter[1],
      strftime(ToUtc(r.datetime))>>

SoundRows(batch) == SelectSeq(batch, LAMBDA r : ~Defective(r))

\* The rows that are the earliest of their normalized tuple, in row order.
Earliest(rows) ==
    LET idx == {i \in 1..Len(rows) :
                   \A j \in 1..(i - 1) : NormTuple(rows[j]) # NormTuple(rows[i])}
        at(k) == CHOOSE i \in idx : Cardinality({j \in idx : j <= i}) = k
    IN  [k \in 1..Cardinality(idx) |-> rows[at(k)]]

RawColumns(row) ==
    RawRow(row.location_id, row.sensors_id, row.location, row.datetime,
           row.lat, row.lon, row.parameter, row.units, row.value)

\* What a measurement doc says of its row.
Reading(m) ==
    <<m.locationId, m.sensorId, m.parameter, m.date.utc, m.value>>

RowReading(r) == <<NormTuple(r)[1], NormTuple(r)[2], NormTuple(r)[3],
                   NormTuple(r)[4], r.value>>

\* The readings expected of the first n csv files: per file, in file order,
\* the rows without defect that are the earliest of their tuple, in row order.
RECURSIVE ExpectedReadings(_)
ExpectedReadings(n) ==
    IF n = 0 THEN <<>>
    ELSE LET rows == Earliest(SoundRows(csv_files[n]))
         IN  ExpectedReadings(n - 1) \o [k \in 1..Len(rows) |-> RowReading(rows[k])]

SoundRowsRead ==
    UNION {Range(SoundRows(csv_files[n])) : n \in 1..file_idx}

\* The readings of every row without defect of the first n csv files.
RECURSIVE SoundReadings(_)
SoundReadings(n) ==
    IF n = 0 THEN <<>>
    ELSE LET rows == SoundRows(csv_files[n])
         IN  SoundReadings(n - 1) \o [k \in 1..Len(rows) |-> RowReading(rows[k])]

\* C6 as claimed: no step raises, exactly the defective rows are dropped,
\* and the measurement of every other row of each batch is appended.
C6_EveryOtherRowAppended ==
    /\ pc # "raised"
    /\ pc \in {"loop", "done"} =>
          /\ [i \in 1..Len(measurements) |-> Reading(measurements[i])]
                 = SoundReadings(file_idx)
          /\ LocationIds(locations) = {r.location_id[1] : r \in SoundRowsRead}
          /\ SensorIds(sensors) = {r.sensors_id[1] : r \in SoundRowsRead}

\* C6, amended: row-level defects never abort a batch.  No step raises;
\* after each call of process_csv the measurements are those of the rows
\* without defect of the files read so far, a row's reading being left out
\* only when an earlier row without defect of its batch has its tuple; the
\* registered locations and sensors are those of the rows without defect.
C6_DefectsNeverAbort ==
    /\ pc # "raised"
    /\ pc \in {"loop", "done"} =>
          /\ [i \in 1..Len(measurements) |-> Reading(measurements[i])]
                 = ExpectedReadings(file_idx)
          /\ LocationIds(locations) = {r.location_id[1] : r \in SoundRowsRead}
          /\ SensorIds(sensors) = {r.sensors_id[1] : r \in SoundRowsRead}

\* process_csv has returned from a batch that holds a row whose timestamp
\* does not parse, a row with a missing field and a row without defect,
\* whose measurement is stored.
C6_Witness ==
    /\ pc = "loop"
    /\ file_idx >= 1
    /\ \E r \in Range(csv_files[file_idx]) : r.datetime.kind = "bad"
    /\ \E r \in Range(csv_files[file_idx]) :
          r.datetime.kind = "iso" /\ Defective(r)
    /\ \E r \in Range(csv_files[file_idx]) :
          /\ ~Defective(r)
          /\ \E i \in 1..Len(measurements) :
                Reading(measurements[i]) = RowReading(r)

StrictlyAscending(ids) == \A i, j \in 1..Len(ids) : i < j => ids[i] < ids[j]

\* The measurement docs of all csv files: file after file, row after row of
\* the cleaned frame.
RECURSIVE DocsOfFiles(_)
DocsOfFiles(n) ==
    IF n = 0 THEN <<>>
    ELSE LET rows == fill_coordinates(clean_dataframe(csv_files[n]))
         IN  DocsOfFiles(n - 1) \o [k \in 1..Len(rows) |-> MeasurementDoc(rows[k])]

\* C10: the output files exist only once every csv file has been processed;
\* locations.json is strictly ascending by locationId and sensors.json by
\* sensorId, each holding exactly the registered docs; measurements.json
\* holds the measurements in append order, file after file and row after
\* row.
C10_Finalization ==
    /\ written # <<>> => pc = "done" /\ file_idx = Len(csv_files)
    /\ pc = "done" =>
          /\ written # <<>>
          /\ LET out == written[1]
             IN  /\ StrictlyAscending([i \in 1..Len(out.locations) |->
                                          out.locations[i].locationId])
                 /\ StrictlyAscending([i \in 1..Len(out.sensors) |->
                                          out.sensors[i].sensorId])
                 /\ Range(out.locations) = Range(locations)
                 /\ Range(out.sensors) = Range(sensors)
                 /\ out.measurements = measurements
                 /\ out.measurements = DocsOfFiles(Len(csv_files))

\* The files are written after two batches whose locations and sensors were
\* registered in descending order of id.
C10_Witness ==
    /\ pc = "done"
    /\ written # <<>>
    /\ Len(csv_files) = 2
    /\ Len(measurements) >= 2
    /\ Len(locations) >= 2
    /\ locations[1].locationId > locations[2].locationId

----------------------------------------------------------------------------
(* Properties of the normaliser (specification SpecNorm)                   *)

\* C5: the cleaned frame holds, in batch order, exactly the rows without
\* defect that are the earliest of their normalized
\* (locationId, sensorId, parameter, utc) tuple, whatever the values of the
\* later rows of the tuple; no two of its rows, and so no two measurements
\* made of them, share the tuple.
C5_WithinBatchDedup ==
    norm_pc = "cleaned" =>
        /\ [i \in 1..Len(norm_df) |-> RawColumns(norm_df[i])]
               = Earliest(SoundRows(raw_batch))
        /\ \A i \in 1..Len(norm_df) : norm_df[i].utc = NormTuple(norm_df[i])[4]
        /\ \A i, j \in 1..Len(norm_df) :
              MeasurementTuple(MeasurementDoc(norm_df[i]))
                  = MeasurementTuple(MeasurementDoc(norm_df[j])) => i = j

\* A cleaned batch in which a row without defect was preceded by a row of
\* its tuple with another value and another timestamp text.
C5_Witness ==
    /\ norm_pc = "cleaned"
    /\ \E i, j \in 1..Len(raw_batch) :
          /\ i < j
          /\ ~Defective(raw_batch[i])
          /\ ~Defective(raw_batch[j])
          /\ NormTuple(raw_batch[i]) = NormTuple(raw_batch[j])
          /\ raw_batch[i].value # raw_batch[j].value
          /\ raw_batch[i].datetime # raw_batch[j].datetime
          /\ \E k \in 1..Len(norm_df) : RawColumns(norm_df[k]) = raw_batch[i]
          /\ \A k \in 1..Len(norm_df) : RawColumns(norm_df[k]) # raw_batch[j]

\* The k-th smallest of the values vals[i], i in 1..Len(vals)
OrderStat(vals, k) ==
    CHOOSE x \in Range(vals) :
        /\ Cardinality({i \in 1..Len(vals) : vals[i] < x}) < k
        /\ k <= Cardinality({i \in 1..Len(vals) : vals[i] <= x})

\* m is the median of vals: the middle value, or the mean of the two middle
\* values.
IsMedian(m, vals) ==
    LET n == Len(vals)
    IN  2 * m = OrderStat(vals, (n + 1) \div 2) + OrderStat(vals, (n + 2) \div 2)

\* The non-missing values of a column among the rows of a location
ValuesOf(rows, loc, col) ==
    LET grp == SelectSeq(rows, LAMBDA r : r.location_id = loc /\ Cell(r, col) # <<>>)
    IN  [i \in 1..Len(grp) |-> Cell(grp[i], col)[1]]

\* The cell a row gets for a column, the medians being taken over rows
FilledFrom(rows, before, after, col) ==
    LET vals == ValuesOf(rows, before.location_id, col)
    IN  IF Cell(before, col) # <<>> THEN Cell(after, col) = Cell(before, col)
        ELSE IF vals = <<>> THEN Cell(after, col) = <<>>
        ELSE /\ Cell(after, col) # <<>>
             /\ IsMedian(Cell(after, col)[1], vals)

\* (1.0, 2.0), missing, (3.0, 4.0) at location 1, in halves
ExampleBatch ==
    << RawRow(<<1>>, <<10>>, "Alpha", StampA, <<2>>, <<4>>, <<PM25>>, "ug", <<50>>),
       RawRow(<<1>>, <<10>>, "Alpha", StampC, <<>>, <<>>, <<PM25>>, "ug", <<50>>),
       RawRow(<<1>>, <<10>>, "Alpha", StampD, <<6>>, <<8>>, <<PM25>>, "ug", <<50>>) >>

\* The coordinate fill, the medians being taken over the rows of pool
FillTakesMediansOver(pool) ==
    (norm_pc = "cleaned" /\ norm_pc' = "filled") =>
        /\ Len(norm_df') = Len(norm_df)
        /\ \A i \in 1..Len(norm_df) :
              /\ FilledFrom(pool, norm_df[i], norm_df'[i], "lat")
              /\ FilledFrom(pool, norm_df[i], norm_df'[i], "lon")
              /\ [norm_df'[i] EXCEPT !.lat = <<>>, !.lon = <<>>]
                     = [norm_df[i] EXCEPT !.lat = <<>>, !.lon = <<>>]
              /\ (norm_df'[i].lat = <<>> \/ norm_df'[i].lon = <<>>)
                     => LocationDoc(norm_df'[i]).coordinates = None
        /\ raw_batch = ExampleBatch =>
              norm_df'[2].lat = <<4>> /\ norm_df'[2].lon = <<6>>

\* C8 as claimed: a missing latitude (longitude) becomes the median of the
\* non-missing latitudes (longitudes) of the rows of the batch with the same
\* locationId, and stays missing, with coordinates None for a location made
\* of the row, when there is none.
C8_MedianOverBatchRows == [][FillTakesMediansOver(raw_batch)]_vars

\* C8, amended: the median is taken over the rows with the same locationId
\* that the batch keeps after cleaning (rows with a defect and later
\* duplicates of a tuple are gone before the fill).
C8_MedianOverCleanedRows == [][FillTakesMediansOver(norm_df)]_vars

\* The batch (1.0, 2.0), missing, (3.0, 4.0) has been filled.
C8_Witness ==
    /\ norm_pc = "filled"
    /\ raw_batch = ExampleBatch
    /\ Len(norm_df) = 3
    /\ norm_df[2].lat = <<4>>

----------------------------------------------------------------------------
(* Properties of the timestamp conversion (specification SpecTs)           *)

\* The number written by the digits at positions from..to of a text
RECURSIVE NumberAt(_, _, _)
NumberAt(text, from, to) ==
    IF to < from THEN 0
    ELSE 10 * NumberAt(text, from, to - 1) + DigitValue(text[to])

\* Days from 2018-01-01 to a date, by counting whole years and months
DayNumber(y, mo, d) ==
    LET YearDays(yy) == IF IsLeap(yy) THEN 366 ELSE 365
        RECURSIVE Years(_)
        Years(yy) == IF yy <= 2018 THEN 0 ELSE YearDays(yy - 1) + Years(yy - 1)
        RECURSIVE Months(_)
        Months(m) == IF m <= 1 THEN 0 ELSE DaysInMonth(y, m - 1) + Months(m - 1)
    IN  Years(y) + Months(mo) + d - 1

\* YYYY-MM-DDTHH:MM:SSZ, 20 characters
IsCanonical(text) ==
    /\ Len(text) = 20
    /\ \A i \in {1, 2, 3, 4, 6, 7, 9, 10, 12, 13, 15, 16, 18, 19} : IsDigit(text[i])
    /\ text[5] = "-" /\ text[8] = "-" /\ text[11] = "T"
    /\ text[14] = ":" /\ text[17] = ":" /\ text[20] = "Z"
    /\ NumberAt(text, 6, 7) \in 1..12
    /\ NumberAt(text, 9, 10)
           \in 1..DaysInMonth(NumberAt(text, 1, 4), NumberAt(text, 6, 7))
    /\ NumberAt(text, 12, 13) \in 0..23
    /\ NumberAt(text, 15, 16) \in 0..59
    /\ NumberAt(text, 18, 19) \in 0..59

\* Seconds from 2018-01-01T00:00:00Z to the instant a canonical text names
InstantOfText(text) ==
    DayNumber(NumberAt(text, 1, 4), NumberAt(text, 6, 7), NumberAt(text, 9, 10))
        * 86400
    + NumberAt(text, 12, 13) * 3600 + NumberAt(text, 15, 16) * 60
    + NumberAt(text, 18, 19)

\* Seconds from 2018-01-01T00:00:00Z to the instant an input cell names: its
\* wall-clock reading is ahead of UTC by its offset.
InstantOfCell(cell) ==
    DayNumber(cell.y, cell.mo, cell.d) * 86400
    + cell.h * 3600 + cell.mi * 60 + cell.s - cell.off * 60

\* The calendar date written in the input, in the form of the day key
LocalDate(cell) ==
    Pad4(cell.y) \o <<"-">> \o Pad2(cell.mo) \o <<"-">> \o Pad2(cell.d)

\* C9: the stored date.utc of an accepted row is a 20-character canonical
\* text YYYY-MM-DDTHH:MM:SSZ that names, in UTC, the instant of the input
\* timestamp (2020-01-01T01:00:00-07:00 gives 2020-01-01T08:00:00Z); its
\* first 10 characters, the daily grouping key, are the UTC calendar date of
\* that instant.
C9_CanonicalUtc ==
    ts_out # <<>> =>
        LET utc == ts_out[1]
        IN  /\ IsCanonical(utc)
            /\ InstantOfText(utc) = InstantOfCell(ts_in)
            /\ LET day == DayNumber(NumberAt(DayKey(utc), 1, 4),
                                    NumberAt(DayKey(utc), 6, 7),
                                    NumberAt(DayKey(utc), 9, 10))
               IN  /\ Len(DayKey(utc)) = 10
                   /\ day * 86400 <= InstantOfCell(ts_in)
                   /\ InstantOfCell(ts_in) < (day + 1) * 86400
            /\ ts_in = StampA =>
                  utc = <<"2", "0", "2", "0", "-", "0", "1", "-", "0", "1", "T",
                          "0", "8", ":", "0", "0", ":", "0", "0", "Z">>

\* A stored timestamp whose UTC date is not the date written in the input.
C9_Witness ==
    /\ ts_out # <<>>
    /\ ts_in.off # 0
    /\ DayKey(ts_out[1]) # LocalDate(ts_in)

----------------------------------------------------------------------------
(* The store the aggregation engine reads.  data_clean.py writes the three *)
(* collections, load_to_mongo.py copies them into MongoDB.  A JSON null is *)
(* the empty sequence and a present unit u is <<u>>.                       *)

MaxDocs == 4         \* rows of the batch the stored collections come from

\* The row loop of process_csv run over a whole frame
RECURSIVE RowLoop(_, _)
RowLoop(acc, rows) ==
    IF rows = <<>> THEN acc
    ELSE RowLoop([locations |-> RegisterLocation(acc.locations, Head(rows)),
                  sensors |-> RegisterSensor(acc.sensors, Head(rows)),
                  measurements |->
                      AppendMeasurement(acc.measurements, Head(rows))],
                 Tail(rows))

\* process_csv on one raw batch, starting from empty globals
process_csv(batch) ==
    LET empty == [locations |-> <<>>, sensors |-> <<>>, measurements |-> <<>>]
    IN  IF batch = <<>> THEN empty
        ELSE RowLoop(empty, fill_coordinates(clean_dataframe(batch)))

\* load_sensors: sensors.json is written to the collection as it is
load_sensors(docs) == docs

\* load_measurements: every document gains date_only, the first ten
\* characters of date.utc
load_measurements(docs) ==
    [i \in 1..Len(docs) |->
        docs[i] @@ [date_only |-> SubSeq(docs[i].date.utc, 1, 10)]]

NO2 == <<"n", "o", "2">>

AnalyticsRows ==
    << RawRow(<<749>>, <<10>>, "Saint John", StampA, <<2>>, <<4>>, <<PM25>>, "ug", <<50>>),
       RawRow(<<749>>, <<10>>, "Saint John", StampD, <<2>>, <<4>>, <<PM25>>, "ug", <<70>>),
       RawRow(<<8132>>, <<11>>, "Fredericton", StampA, <<6>>, <<8>>, <<PM25>>, "ppm", <<50>>),
       RawRow(<<8132>>, <<12>>, "Fredericton", StampC, <<6>>, <<8>>, <<PM25>>, "ppm", <<90>>),
       RawRow(<<749>>, <<12>>, "Saint John", StampA, <<2>>, <<4>>, <<O3>>, "ppb", <<30>>),
       RawRow(<<749>>, <<10>>, "Saint John", StampC, <<2>>, <<4>>, <<PM25>>, "ug", <<50>>) >>

\* The rows of a batch: those of AnalyticsRows at the positions in S
RECURSIVE PickRows(_, _, _)
PickRows(rows, S, i) ==
    IF i > Len(rows) THEN <<>>
    ELSE (IF i \in S THEN <<rows[i]>> ELSE <<>>) \o PickRows(rows, S, i + 1)

AnalyticsBatches ==
    { PickRows(AnalyticsRows, S, 1) :
        S \in {T \in SUBSET (1..Len(AnalyticsRows)) : Cardinality(T) <= MaxDocs} }

\* The collections after data_clean.py and load_to_mongo.py ran on a batch
StoreLoaded ==
    \E batch \in AnalyticsBatches :
        LET out == process_csv(batch)
        IN  /\ db_measurements = load_measurements(out.measurements)
            /\ db_sensors = load_sensors(SortBySensorId(out.sensors))

----------------------------------------------------------------------------
(* The aggregation stages of MongoDB that the pipelines of analytics.py    *)
(* use.  $group emits its groups in no specified order and $sort does not  *)
(* order documents that tie on the sort key: a pipeline is modelled by the *)
(* set of result lists it can return.                                      *)

\* Code points of the characters of a canonical UTC string
CharCode(c) ==
    IF IsDigit(c) THEN 48 + DigitValue(c)
    ELSE CASE c = "-" -> 45
           [] c = ":" -> 58
           [] c = "T" -> 84
           [] c = "Z" -> 90

\* String comparison of the store: by code point, a proper prefix first
RECURSIVE StrBefore(_, _)
StrBefore(a, b) ==
    IF b = <<>> THEN FALSE
    ELSE IF a = <<>> THEN TRUE
    ELSE IF Head(a) # Head(b) THEN CharCode(Head(a)) < CharCode(Head(b))
    ELSE StrBefore(Tail(a), Tail(b))

\* The _id expression of a $group stage
GroupKey(doc, by) ==
    CASE by = "date" -> [date |-> DayKey(doc.date.utc)]
      [] by = "locationId" -> doc.locationId
      [] by = "sensorId" -> doc.sensorId
      [] by = "locationId_date" ->
             [locationId |-> doc.locationId, date |-> DayKey(doc.date.utc)]

GroupKeys(docs, by) == {GroupKey(docs[i], by) : i \in 1..Len(docs)}

Members(docs, by, key) == SelectSeq(docs, LAMBDA d : GroupKey(d, by) = key)

\* The orders in which $group can emit the groups of a key set
Orderings(S) ==
    {f \in [1..Cardinality(S) -> S] :
        \A i, j \in 1..Cardinality(S) : i # j => f[i] # f[j]}

RECURSIVE SumValue(_)
SumValue(docs) ==
    IF docs = <<>> THEN 0 ELSE Head(docs).value[1] + SumValue(Tail(docs))

\* $avg, kept exact as a fraction
AvgValue(docs) == [num |-> SumValue(docs), den |-> Len(docs)]

MinValue(docs) ==
    CHOOSE v \in {docs[i].value[1] : i \in 1..Len(docs)} :
        \A i \in 1..Len(docs) : v <= docs[i].value[1]

MaxValue(docs) ==
    CHOOSE v \in {docs[i].value[1] : i \in 1..Len(docs)} :
        \A i \in 1..Len(docs) : v >= docs[i].value[1]

MinUtc(docs) ==
    CHOOSE u \in {docs[i].date.utc : i \in 1..Len(docs)} :
        \A i \in 1..Len(docs) : ~StrBefore(docs[i].date.utc, u)

MaxUtc(docs) ==
    CHOOSE u \in {docs[i].date.utc : i \in 1..Len(docs)} :
        \A i \in 1..Len(docs) : ~StrBefore(u, docs[i].date.utc)

\* a sorts before b under the $sort specification named by order
Before(a, b, order) ==
    CASE order = "date" -> StrBefore(a._id.date, b._id.date)
      [] order = "avgValue_desc" ->
             a.avgValue.num * b.avgValue.den > b.avgValue.num * a.avgValue.den
      [] order = "totalReadings_desc" -> a.totalReadings > b.totalReadings
      [] order = "date_locationId" ->
             \/ StrBefore(a._id.date, b._id.date)
             \/ /\ a._id.date = b._id.date
                /\ a._id.locationId < b._id.locationId

InsertSorted(sorted, doc, order) ==
    LET later == {i \in 1..Len(sorted) : Before(doc, sorted[i], order)}
        at == IF later = {} THEN Len(sorted) + 1
              ELSE CHOOSE i \in later : \A j \in later : i <= j
    IN  SubSeq(sorted, 1, at - 1) \o <<doc>> \o SubSeq(sorted, at, Len(sorted))

\* $sort: documents that tie keep the order the earlier stage gave them
RECURSIVE SortStage(_, _)
SortStage(docs, order) ==
    IF docs = <<>> THEN <<>>
    ELSE InsertSorted(SortStage(SubSeq(docs, 1, Len(docs) - 1), order),
                      docs[Len(docs)], order)

----------------------------------------------------------------------------
(* The pipelines of analytics.py.  Each definition is the set of outcomes  *)
(* a call can have: a returned list, or an exception raised.               *)

\* What evaluating doc["unit"] with doc = None raises
RaisedTypeError == <<"raise", "TypeError">>

\* Faulty variant of get_unit_for_parameter: doc["unit"] is read without
\* testing doc first.
get_unit_unguarded(parameter, location_id) ==
    LET found == {i \in 1..Len(db_sensors) :
                     /\ db_sensors[i].parameter = parameter
                     /\ location_id # None =>
                            db_sensors[i].locationId = location_id[1]}
    IN  IF found = {} THEN {RaisedTypeError}
        ELSE {<<db_sensors[i].unit>> : i \in found}

\* Faulty variant of get_unit_for_parameter: the query never names the
\* location.
get_unit_any_location(parameter, location_id) ==
    LET found == {i \in 1..Len(db_sensors) :
                     db_sensors[i].parameter = parameter}
    IN  IF found = {} THEN {None}
        ELSE {<<db_sensors[i].unit>> : i \in found}

\* find_one returns one of the sensors matching the query, None when there
\* is none; location_id is None or <<id>>
get_unit_for_parameter(parameter, location_id) ==
    LET found == {i \in 1..Len(db_sensors) :
                     /\ db_sensors[i].parameter = parameter
                     /\ location_id # None =>
                            db_sensors[i].locationId = location_id[1]}
    IN  IF found = {} THEN {None}
        ELSE {<<db_sensors[i].unit>> : i \in found}

\* for doc in results: doc["parameter"] = parameter; doc["unit"] = unit
Annotated(docs, parameter, unit) ==
    [i \in 1..Len(docs) |->
        docs[i] @@ [parameter |-> parameter, unit |-> unit]]

Returned(docs) == [raised |-> <<>>, returned |-> docs]

\* The outcomes of a pipeline whose aggregate can return any of lists and
\* whose unit lookup can end in any of units
AnnotatedOutcomes(lists, parameter, units) ==
    { IF u = RaisedTypeError
      THEN [raised |-> <<"TypeError">>, returned |-> <<>>]
      ELSE Returned(Annotated(l, parameter, u)) : l \in lists, u \in units }

\* The accumulators shared by the daily pipelines
DailyStats(key, members) ==
    [_id |-> key, avgValue |-> AvgValue(members),
     minValue |-> MinValue(members), maxValue |-> MaxValue(members),
     count |-> Len(members)]

\* {"$match": {"parameter": parameter, "locationId": location_id}}
MatchParameterLocation(docs, parameter, location_id) ==
    SelectSeq(docs, LAMBDA d : /\ d.parameter = parameter
                               /\ d.locationId = location_id)

\* {"$match": {"parameter": parameter}}
MatchParameter(docs, parameter) ==
    SelectSeq(docs, LAMBDA d : d.parameter = parameter)

avg_pollutant_daily(parameter, location_id) ==
    LET matched == MatchParameterLocation(db_measurements, parameter,
                                          location_id)
        lists == { SortStage([i \in 1..Len(o) |->
                                 DailyStats(o[i], Members(matched, "date", o[i]))],
                             "date") :
                   o \in Orderings(GroupKeys(matched, "date")) }
    IN  AnnotatedOutcomes(lists, parameter,
                          get_unit_for_parameter(parameter, <<location_id>>))

\* Faulty variant of EnoughReadings: $gt in place of $gte.
MoreThanMinReadings(doc, min_readings) == doc.readings > min_readings

\* {"$match": {"readings": {"$gte": min_readings}}}
EnoughReadings(doc, min_readings) == doc.readings >= min_readings

HotspotStats(key, members) ==
    [_id |-> key, avgValue |-> AvgValue(members),
     maxValue |-> MaxValue(members), readings |-> Len(members)]

pollution_hotspots(parameter, min_readings) ==
    LET matched == MatchParameter(db_measurements, parameter)
        lists == { SortStage(
                       SelectSeq([i \in 1..Len(o) |->
                                     HotspotStats(o[i],
                                         Members(matched, "locationId", o[i]))],
                                 LAMBDA d : EnoughReadings(d, min_readings)),
                       "avgValue_desc") :
                   o \in Orderings(GroupKeys(matched, "locationId")) }
    IN  AnnotatedOutcomes(lists, parameter,
                          get_unit_for_parameter(parameter, None))

\* {"$match": {"dailyAvg": {"$gt": safe_limit}}}
ExceedsLimit(doc, safe_limit) ==
    doc.dailyAvg.num > safe_limit * doc.dailyAvg.den

days_exceeding_threshold(location_id, parameter, safe_limit) ==
    LET matched == MatchParameterLocation(db_measurements, parameter,
                                          location_id)
        lists == { SortStage(
                       SelectSeq([i \in 1..Len(o) |->
                                     [_id |-> o[i],
                                      dailyAvg |->
                                          AvgValue(Members(matched, "date", o[i]))]],
                                 LAMBDA d : ExceedsLimit(d, safe_limit)),
                       "date") :
                   o \in Orderings(GroupKeys(matched, "date")) }
    IN  AnnotatedOutcomes(lists, parameter,
                          get_unit_for_parameter(parameter, <<location_id>>))

UptimeStats(key, members) ==
    [_id |-> key, totalReadings |-> Len(members),
     firstReading |-> MinUtc(members), lastReading |-> MaxUtc(members)]

sensor_uptime_for_location(location_id) ==
    LET matched == SelectSeq(db_measurements,
                             LAMBDA d : d.locationId = location_id)
    IN  { Returned(SortStage([i \in 1..Len(o) |->
                                 UptimeStats(o[i],
                                     Members(matched, "sensorId", o[i]))],
                             "totalReadings_desc")) :
          o \in Orderings(GroupKeys(matched, "sensorId")) }

\* Faulty variant of CompareSort: the sort names the date only.
CompareSortByDateOnly(docs) == SortStage(docs, "date")

\* {"$sort": {"_id.date": 1, "_id.locationId": 1}}
CompareSort(docs) == SortStage(docs, "date_locationId")

compare_locations_daily(loc1, loc2, parameter) ==
    LET matched == SelectSeq(db_measurements,
                             LAMBDA d : /\ d.parameter = parameter
                                        /\ d.locationId \in {loc1, loc2})
        lists == { CompareSort([i \in 1..Len(o) |->
                                   DailyStats(o[i],
                                       Members(matched, "locationId_date", o[i]))]) :
                   o \in Orderings(GroupKeys(matched, "locationId_date")) }
    IN  AnnotatedOutcomes(lists, parameter,
                          get_unit_for_parameter(parameter, None))

avg_pollutant_daily_global(parameter) ==
    LET matched == MatchParameter(db_measurements, parameter)
        lists == { SortStage([i \in 1..Len(o) |->
                                 DailyStats(o[i], Members(matched, "date", o[i]))],
                             "date") :
                   o \in Orderings(GroupKeys(matched, "date")) }
    IN  AnnotatedOutcomes(lists, parameter,
                          get_unit_for_parameter(parameter, None))

----------------------------------------------------------------------------
(* Calls of the pipelines on a loaded store (specification SpecAn)         *)

QueryParameters == {PM25, O3, NO2}

QueryLocations == {749, 8132, 746}

QueryMinReadings == {1, 2, 3}

QueryLimits == {50, 60}

UpstreamIdle ==
    /\ ReconcilerIdle
    /\ NormaliserIdle
    /\ TimestampIdle
    /\ id_calls = <<>>

InitAn ==
    /\ StoreLoaded
    /\ AnalyticsIdle
    /\ OrchestratorIdle
    /\ MainIdle
    /\ PlotIdle
    /\ UpstreamIdle

\* A call returns or raises; the collections are only read
Answer(call, outcome) ==
    /\ query' = <<call>>
    /\ results' = outcome
    /\ earlier' = IF query = <<call>> THEN <<results>> ELSE <<>>
    /\ UNCHANGED <<storeVars, orchestratorVars, mainVars, plotVars>>
    /\ UNCHANGED upstreamVars

AvgPollutantDaily ==
    \E p \in QueryParameters, l \in QueryLocations :
        \E out \in avg_pollutant_daily(p, l) :
            Answer([fn |-> "avg_pollutant_daily", parameter |-> p,
                    location_id |-> l], out)

PollutionHotspots ==
    \E p \in QueryParameters, n \in QueryMinReadings :
        \E out \in pollution_hotspots(p, n) :
            Answer([fn |-> "pollution_hotspots", parameter |-> p,
                    min_readings |-> n], out)

DaysExceedingThreshold ==
    \E p \in QueryParameters, l \in QueryLocations, limit \in QueryLimits :
        \E out \in days_exceeding_threshold(l, p, limit) :
            Answer([fn |-> "days_exceeding_threshold", parameter |-> p,
                    location_id |-> l, safe_limit |-> limit], out)

SensorUptimeForLocation ==
    \E l \in QueryLocations :
        \E out \in sensor_uptime_for_location(l) :
            Answer([fn |-> "sensor_uptime_for_location", location_id |-> l],
                   out)

CompareLocationsDaily ==
    \E p \in QueryParameters, l1 \in QueryLocations, l2 \in QueryLocations :
        \E out \in compare_locations_daily(l1, l2, p) :
            Answer([fn |-> "compare_locations_daily", parameter |-> p,
                    loc1 |-> l1, loc2 |-> l2], out)

AvgPollutantDailyGlobal ==
    \E p \in QueryParameters :
        \E out \in avg_pollutant_daily_global(p) :
            Answer([fn |-> "avg_pollutant_daily_global", parameter |-> p],
                   out)

NextAn ==
    \/ AvgPollutantDaily
    \/ PollutionHotspots
    \/ DaysExceedingThreshold
    \/ SensorUptimeForLocation
    \/ CompareLocationsDaily
    \/ AvgPollutantDailyGlobal

SpecAn == InitAn /\ [][NextAn]_vars

----------------------------------------------------------------------------
(* Properties of the aggregation pipelines (specification SpecAn)          *)

\* The call made last, when there was one
LastCall == query[1]

Called(fn) == query # <<>> /\ LastCall.fn = fn

\* The stored measurements of a parameter at a location, by position
ReadingsAt(parameter, location_id) ==
    {i \in 1..Len(db_measurements) :
        /\ db_measurements[i].parameter = parameter
        /\ db_measurements[i].locationId = location_id}

StoredLocations ==
    {db_measurements[i].locationId : i \in 1..Len(db_measurements)}

RECURSIVE TotalOf(_)
TotalOf(I) ==
    IF I = {} THEN 0
    ELSE LET i == CHOOSE i \in I : TRUE
         IN  db_measurements[i].value[1] + TotalOf(I \ {i})

LargestOf(I) ==
    CHOOSE v \in {db_measurements[i].value[1] : i \in I} :
        \A i \in I : db_measurements[i].value[1] <= v

\* The fraction avg is the mean of the measurements at the positions I
IsMeanOf(avg, I) ==
    avg.den > 0 /\ avg.num * Cardinality(I) = TotalOf(I) * avg.den

\* Fractions with positive denominators: a is at least b
AtLeast(a, b) == a.num * b.den >= b.num * a.den

\* C11: pollution_hotspots(parameter, min_readings) returns a row for a
\* location exactly when the store holds at least min_readings measurements
\* of the parameter at that location; each row carries the average, the
\* maximum and the count over exactly those measurements; the rows are in
\* descending order of average.
C11_HotspotFilterBoundary ==
    Called("pollution_hotspots") =>
        LET rows == results.returned
            p == LastCall.parameter
            n == LastCall.min_readings
        IN  /\ results.raised = <<>>
            /\ {rows[i]._id : i \in 1..Len(rows)} =
                   {l \in StoredLocations :
                       Cardinality(ReadingsAt(p, l)) >= n}
            /\ \A i, j \in 1..Len(rows) : i # j => rows[i]._id # rows[j]._id
            /\ \A i \in 1..Len(rows) :
                   LET I == ReadingsAt(p, rows[i]._id)
                   IN  /\ rows[i].readings = Cardinality(I)
                       /\ IsMeanOf(rows[i].avgValue, I)
                       /\ rows[i].maxValue = LargestOf(I)
            /\ \A i, j \in 1..Len(rows) :
                   i < j => AtLeast(rows[i].avgValue, rows[j].avgValue)

\* A call where one location has exactly min_readings measurements and is
\* returned, and another has min_readings - 1 of them and is not
C11_Witness ==
    /\ Called("pollution_hotspots")
    /\ LastCall.min_readings >= 2
    /\ \E l, m \in StoredLocations :
          /\ Cardinality(ReadingsAt(LastCall.parameter, l)) =
                 LastCall.min_readings
          /\ Cardinality(ReadingsAt(LastCall.parameter, m)) =
                 LastCall.min_readings - 1
          /\ \E i \in 1..Len(results.returned) : results.returned[i]._id = l
          /\ \A i \in 1..Len(results.returned) : results.returned[i]._id # m

\* The calendar day of a date text YYYY-MM-DD..., as the number YYYYMMDD
DateNumber(text) ==
    NumberAt(text, 1, 4) * 10000 + NumberAt(text, 6, 7) * 100
        + NumberAt(text, 9, 10)

\* The stored measurements of a parameter at a location on a day
ReadingsOn(parameter, location_id, day) ==
    {i \in ReadingsAt(parameter, location_id) :
        DateNumber(db_measurements[i].date.utc) = day}

StoredDays ==
    {DateNumber(db_measurements[i].date.utc) : i \in 1..Len(db_measurements)}

\* C12: compare_locations_daily(loc1, loc2, parameter) returns exactly one
\* row per (locationId, date) pair with at least one matching measurement,
\* its count the number of measurements of the pair, the rows in ascending
\* order of date and, within a date, of locationId.
C12_ComparisonGrouping ==
    Called("compare_locations_daily") =>
        LET rows == results.returned
            p == LastCall.parameter
            PairOf(r) == <<r._id.locationId, DateNumber(r._id.date)>>
        IN  /\ results.raised = <<>>
            /\ {PairOf(rows[i]) : i \in 1..Len(rows)} =
                   {pair \in {LastCall.loc1, LastCall.loc2} \X StoredDays :
                       ReadingsOn(p, pair[1], pair[2]) # {}}
            /\ \A i \in 1..Len(rows) :
                   /\ Len(rows[i]._id.date) = 10
                   /\ rows[i].count =
                          Cardinality(ReadingsOn(p, PairOf(rows[i])[1],
                                                 PairOf(rows[i])[2]))
            /\ \A i, j \in 1..Len(rows) :
                   i < j =>
                       \/ PairOf(rows[i])[2] < PairOf(rows[j])[2]
                       \/ /\ PairOf(rows[i])[2] = PairOf(rows[j])[2]
                          /\ PairOf(rows[i])[1] < PairOf(rows[j])[1]

\* A comparison of two locations with two and one readings on the same day:
\* two rows for that day, with counts 2 and 1
C12_Witness ==
    /\ Called("compare_locations_daily")
    /\ \E i, j \in 1..Len(results.returned) :
          /\ i < j
          /\ results.returned[i]._id.date = results.returned[j]._id.date
          /\ results.returned[i]._id.locationId = LastCall.loc1
          /\ results.returned[j]._id.locationId = LastCall.loc2
          /\ results.returned[i].count = 2
          /\ results.returned[j].count = 1

\* The stored measurements a call's first $match stage selects
MatchedBy(call) ==
    CASE call.fn \in {"avg_pollutant_daily", "days_exceeding_threshold"} ->
             ReadingsAt(call.parameter, call.location_id)
      [] call.fn \in {"pollution_hotspots", "avg_pollutant_daily_global"} ->
             UNION {ReadingsAt(call.parameter, l) : l \in StoredLocations}
      [] call.fn = "sensor_uptime_for_location" ->
             {i \in 1..Len(db_measurements) :
                 db_measurements[i].locationId = call.location_id}
      [] call.fn = "compare_locations_daily" ->
             ReadingsAt(call.parameter, call.loc1)
                 \cup ReadingsAt(call.parameter, call.loc2)

\* The stored sensors a call's unit lookup can find
SensorsFor(call) ==
    CASE call.fn \in {"avg_pollutant_daily", "days_exceeding_threshold"} ->
             {i \in 1..Len(db_sensors) :
                 /\ db_sensors[i].parameter = call.parameter
                 /\ db_sensors[i].locationId = call.location_id}
      [] call.fn \in {"pollution_hotspots", "avg_pollutant_daily_global",
                      "compare_locations_daily"} ->
             {i \in 1..Len(db_sensors) :
                 db_sensors[i].parameter = call.parameter}
      [] call.fn = "sensor_uptime_for_location" -> {}

\* C13: a pipeline called with a parameter or location that matches no
\* stored measurement, and no sensor for the unit lookup, returns the empty
\* list, raises nothing, and leaves both collections as they were.
C13_EmptyResultContract ==
    [][ (query' # <<>> /\ MatchedBy(query'[1]) = {}
            /\ SensorsFor(query'[1]) = {}) =>
        /\ results'.raised = <<>>
        /\ results'.returned = <<>>
        /\ db_measurements' = db_measurements
        /\ db_sensors' = db_sensors ]_vars

\* A call on a store that holds measurements and sensors, none of which
\* matches the call
C13_Witness ==
    /\ query # <<>>
    /\ db_measurements # <<>>
    /\ db_sensors # <<>>
    /\ MatchedBy(LastCall) = {}
    /\ SensorsFor(LastCall) = {}
    /\ LastCall.fn = "compare_locations_daily"
    /\ results.returned = <<>>

\* C14: on a fixed store and with fixed arguments a pipeline returns the
\* same list, in the same order, every time it is called, whatever order
\* the store scans or groups the measurements in; rows that tie on the sort
\* key included.
C14_OrderIndependence ==
    earlier # <<>> => results = earlier[1]

\* Every record carries the two fields, the parameter queried and one unit
\* for all, which is that of a sensor the lookup can find, or null when
\* there is none
UnitAnnotated(call, rows) ==
    /\ \A i \in 1..Len(rows) :
           /\ {"parameter", "unit"} \subseteq DOMAIN rows[i]
           /\ rows[i].parameter = call.parameter
    /\ \A i, j \in 1..Len(rows) : rows[i].unit = rows[j].unit
    /\ \A i \in 1..Len(rows) :
           IF SensorsFor(call) = {} THEN rows[i].unit = None
           ELSE \E k \in SensorsFor(call) :
                    rows[i].unit = <<db_sensors[k].unit>>

\* C15 as claimed: every record of every result set of the six analytics
\* carries a parameter field and a unit field, one unit per result set,
\* that of a stored sensor matching the query or null when none matches.
C15_UnitAnnotation ==
    query # <<>> =>
        /\ results.raised = <<>>
        /\ \A i \in 1..Len(results.returned) :
               {"parameter", "unit"} \subseteq DOMAIN results.returned[i]
        /\ LastCall.fn # "sensor_uptime_for_location" =>
               UnitAnnotated(LastCall, results.returned)

\* C15, amended: the records of daily average, hotspots, threshold
\* exceedance, cross-location comparison and global daily average carry the
\* parameter and one unit per result set, that of a stored sensor matching
\* the parameter (and the location, for daily average and threshold
\* exceedance) or null when none matches; the records of sensor uptime
\* carry neither field.
C15_UnitAnnotationWhereQueried ==
    query # <<>> =>
        /\ results.raised = <<>>
        /\ IF LastCall.fn = "sensor_uptime_for_location"
           THEN \A i \in 1..Len(results.returned) :
                    {"parameter", "unit"} \cap DOMAIN results.returned[i] = {}
           ELSE UnitAnnotated(LastCall, results.returned)

\* A daily average of two days at a location whose sensor has another unit
\* than a sensor of the same parameter elsewhere
C15_Witness ==
    /\ Called("avg_pollutant_daily")
    /\ Len(results.returned) >= 2
    /\ results.returned[1].unit # None
    /\ \E k \in 1..Len(db_sensors) :
          /\ db_sensors[k].parameter = LastCall.parameter
          /\ <<db_sensors[k].unit>> # results.returned[1].unit

----------------------------------------------------------------------------
(* main.py runs the five steps as child processes; data_download.py is the *)
(* first of them (specification SpecRun).  The exit status of a step is    *)
(* <<>> while the child runs and <<status>> once it has exited.            *)

MaxFailedFetches == 1    \* aws runs that end non-zero in one download

\* LOCATIONS of data_download.py, in insertion order
LOCATIONS ==
    << [name |-> "Saint John", id |-> 749],
       [name |-> "Fredericton", id |-> 8132],
       [name |-> "Moncton", id |-> 746] >>

LOCATION_IDS == [i \in 1..Len(LOCATIONS) |-> LOCATIONS[i].id]

YEARS == <<2015, 2016, 2017, 2018, 2019, 2020>>

\* The (loc, year) pairs in the order the two loops of main visit them
DownloadPairs ==
    [k \in 1..(Len(LOCATION_IDS) * Len(YEARS)) |->
        [location_id |-> LOCATION_IDS[((k - 1) \div Len(YEARS)) + 1],
         year |-> YEARS[((k - 1) % Len(YEARS)) + 1]]]

\* The commands main hands to run_step, in order
Steps ==
    << [desc |-> "Downloading OpenAQ Data", cmd |-> "python3 data_download.py"],
       [desc |-> "Cleaning and normalizing data", cmd |-> "python3 data_clean.py"],
       [desc |-> "Importing data into HDFS", cmd |-> "bash import_hadoop_data.sh"],
       [desc |-> "Loading HDFS data into MongoDB (Spark)",
        cmd |-> "python3 load_to_mongo.py"],
       [desc |-> "Running analytics", cmd |-> "python3 analytics.py"] >>

\* Statuses a child process can exit with
ExitStatuses == {0, 1, 2}

FailedFetches ==
    Cardinality({i \in 1..Len(fetches) : fetches[i].returncode # 0})

InitRun ==
    /\ run_pc = "main"
    /\ step_log = <<>>
    /\ fetches = <<>>
    /\ extractions = 0
    /\ complete_printed = FALSE
    /\ StoreIdle
    /\ AnalyticsIdle
    /\ MainIdle
    /\ PlotIdle
    /\ UpstreamIdle

\* run_step of the first step: subprocess.run starts data_download.py
StartDownload ==
    /\ run_pc = "main"
    /\ step_log = <<>>
    /\ step_log' = <<[cmd |-> Steps[1].cmd, status |-> <<>>]>>
    /\ run_pc' = "download"
    /\ UNCHANGED <<fetches, extractions, complete_printed>>
    /\ UNCHANGED <<storeVars, analyticsVars, mainVars, plotVars, upstreamVars>>

\* One iteration of the loops of data_download.main: download_data, whose
\* subprocess.run returns whatever aws exits with, then extract_gz_files.
\* An exception in the extraction ends the script with status 1, which
\* run_step turns into sys.exit(1).
DownloadPair ==
    /\ run_pc = "download"
    /\ Len(fetches) < Len(DownloadPairs)
    /\ \E returncode \in ExitStatuses, extraction \in {"ok", "raised"} :
          LET pair == DownloadPairs[Len(fetches) + 1]
          IN  /\ returncode # 0 => FailedFetches < MaxFailedFetches
              /\ fetches' = Append(fetches,
                                   [location_id |-> pair.location_id,
                                    year |-> pair.year,
                                    returncode |-> returncode])
              /\ extractions' = extractions + 1
              /\ IF extraction = "raised"
                 THEN /\ step_log' = <<[cmd |-> Steps[1].cmd, status |-> <<1>>]>>
                      /\ run_pc' = "exit 1"
                 ELSE UNCHANGED <<step_log, run_pc>>
    /\ UNCHANGED complete_printed
    /\ UNCHANGED <<storeVars, analyticsVars, mainVars, plotVars, upstreamVars>>

\* data_download.py ends after the last pair; run_step prints and returns
DownloadDone ==
    /\ run_pc = "download"
    /\ Len(fetches) = Len(DownloadPairs)
    /\ step_log' = <<[cmd |-> Steps[1].cmd, status |-> <<0>>]>>
    /\ run_pc' = "main"
    /\ UNCHANGED <<fetches, extractions, complete_printed>>
    /\ UNCHANGED <<storeVars, analyticsVars, mainVars, plotVars, upstreamVars>>

\* Faulty variant of RunStep: the exit status of the child is not checked
\* (subprocess.run without check=True).
RunStepUnchecked ==
    /\ run_pc = "main"
    /\ Len(step_log) \in 1..(Len(Steps) - 1)
    /\ \E status \in ExitStatuses :
          step_log' = Append(step_log,
                             [cmd |-> Steps[Len(step_log) + 1].cmd,
                              status |-> <<status>>])
    /\ IF Len(step_log) + 1 = Len(Steps)
       THEN run_pc' = "complete" /\ complete_printed' = TRUE
       ELSE UNCHANGED <<run_pc, complete_printed>>
    /\ UNCHANGED <<fetches, extractions>>
    /\ UNCHANGED <<storeVars, analyticsVars, mainVars, plotVars, upstreamVars>>

\* run_step of the second to the fifth step: the child runs and exits; a
\* non-zero status raises CalledProcessError and run_step calls sys.exit(1);
\* after the fifth step main prints "Pipeline complete. "
RunStep ==
    /\ run_pc = "main"
    /\ Len(step_log) \in 1..(Len(Steps) - 1)
    /\ \E status \in ExitStatuses :
          /\ step_log' = Append(step_log,
                                [cmd |-> Steps[Len(step_log) + 1].cmd,
                                 status |-> <<status>>])
          /\ IF status # 0
             THEN run_pc' = "exit 1" /\ UNCHANGED complete_printed
             ELSE IF Len(step_log) + 1 = Len(Steps)
             THEN run_pc' = "complete" /\ complete_printed' = TRUE
             ELSE UNCHANGED <<run_pc, complete_printed>>
    /\ UNCHANGED <<fetches, extractions>>
    /\ UNCHANGED <<storeVars, analyticsVars, mainVars, plotVars, upstreamVars>>

NextRun ==
    \/ StartDownload
    \/ DownloadPair
    \/ DownloadDone
    \/ RunStep

SpecRun == InitRun /\ [][NextRun]_vars

----------------------------------------------------------------------------
(* Properties of the orchestration (specification SpecRun)                 *)

Exited(k) == step_log[k].status # <<>>

\* C16: the steps start in the order download, clean, HDFS import, Mongo
\* load, analytics; a step starts only after every earlier step has exited
\* with status zero; once a step has exited non-zero no later step is
\* started and the process exits with status 1; "Pipeline complete." is
\* printed only when all five steps have exited with zero.
C16_HaltsOnFirstFailure ==
    /\ Len(step_log) <= Len(Steps)
    /\ \A k \in 1..Len(step_log) : step_log[k].cmd = Steps[k].cmd
    /\ \A k \in 1..Len(step_log) :
           \A e \in 1..(k - 1) : step_log[e].status = <<0>>
    /\ \A k \in 1..Len(step_log) :
           (Exited(k) /\ step_log[k].status # <<0>>) =>
               /\ Len(step_log) = k
               /\ run_pc = "exit 1"
    /\ run_pc = "exit 1" =>
           /\ step_log # <<>>
           /\ step_log[Len(step_log)].status \notin {<<>>, <<0>>}
    /\ complete_printed =>
           /\ Len(step_log) = Len(Steps)
           /\ \A k \in 1..Len(Steps) : step_log[k].status = <<0>>
    /\ complete_printed <=> run_pc = "complete"

\* The import step has failed after two successful steps: the run has ended
\* with status 1 and nothing was printed
C16_Witness ==
    /\ Len(step_log) = 3
    /\ step_log[3].status = <<2>>
    /\ step_log[3].cmd = "bash import_hadoop_data.sh"
    /\ run_pc = "exit 1"
    /\ ~complete_printed

\* C17: when the aws run of a (location, year) pair ends non-zero, nothing
\* more is downloaded or extracted, the download step exits non-zero, and
\* the cleaning, import, load and analytics steps are never started.
C17_FetchFailureIsFatal ==
    \A i \in 1..Len(fetches) :
        fetches[i].returncode # 0 =>
            /\ Len(fetches) = i
            /\ extractions < i
            /\ step_log[1].status # <<0>>
            /\ Len(step_log) = 1

----------------------------------------------------------------------------
(* The plotting functions of visualizations.py and main of analytics.py.   *)
(* A call passes keyword arguments, a record from argument names to        *)
(* values; an outcome is a returned value or an exception raised.          *)

\* def plot_...(...): the parameters of each function, and those without a
\* default
PlotSignature(fn) ==
    CASE fn = "plot_avg_pollutant_daily" ->
             [params |-> {"docs", "parameter", "location_id", "show"},
              required |-> {"docs", "parameter", "location_id"}]
      [] fn = "plot_avg_pollutant_daily2" ->
             [params |-> {"docs", "parameter", "location_id", "year",
                          "start_year", "end_year", "show"},
              required |-> {"docs", "parameter", "location_id"}]
      [] fn = "plot_pollution_hotspots" ->
             [params |-> {"docs", "parameter", "top_n", "show"},
              required |-> {"docs", "parameter"}]
      [] fn = "plot_days_exceeding_threshold" ->
             [params |-> {"docs", "parameter", "location_id", "safe_limit",
                          "show"},
              required |-> {"docs", "parameter", "location_id", "safe_limit"}]
      [] fn = "plot_days_exceeding_threshold2" ->
             [params |-> {"docs", "parameter", "location_id", "safe_limit",
                          "year", "start_year", "end_year", "show"},
              required |-> {"docs", "parameter", "location_id", "safe_limit"}]
      [] fn = "plot_sensor_uptime_for_location" ->
             [params |-> {"docs", "location_id", "show"},
              required |-> {"docs", "location_id"}]
      [] fn = "plot_compare_locations_daily" ->
             [params |-> {"docs", "loc1", "loc2", "parameter", "show"},
              required |-> {"docs", "loc1", "loc2", "parameter"}]
      [] fn = "plot_compare_locations_daily2" ->
             [params |-> {"docs", "loc1", "loc2", "parameter", "year",
                          "start_year", "end_year", "show"},
              required |-> {"docs", "loc1", "loc2", "parameter"}]
      [] fn = "plot_avg_pollutant_daily_global" ->
             [params |-> {"docs", "parameter", "show"},
              required |-> {"docs", "parameter"}]
      [] fn = "plot_avg_pollutant_daily_global2" ->
             [params |-> {"docs", "parameter", "year", "start_year",
                          "end_year", "show"},
              required |-> {"docs", "parameter"}]

PlotFunctions ==
    {"plot_avg_pollutant_daily", "plot_avg_pollutant_daily2",
     "plot_pollution_hotspots", "plot_days_exceeding_threshold",
     "plot_days_exceeding_threshold2", "plot_sensor_uptime_for_location",
     "plot_compare_locations_daily", "plot_compare_locations_daily2",
     "plot_avg_pollutant_daily_global", "plot_avg_pollutant_daily_global2"}

\* The functions that filter the parsed dates by year and return None when
\* nothing is left (plot_avg_pollutant_daily_global2 tests 'not filter', the
\* builtin, and so never returns there)
ReturnsWhenFilteredEmpty ==
    {"plot_avg_pollutant_daily2", "plot_days_exceeding_threshold2",
     "plot_compare_locations_daily2"}

Raised(exception) == [raised |-> <<exception>>, returned |-> <<>>]

\* _in_range over the parsed dates: the docs of the year asked for
InYear(docs, kwargs) ==
    IF "year" \in DOMAIN kwargs
    THEN SelectSeq(docs, LAMBDA d : NumberAt(d._id.date, 1, 4) = kwargs.year)
    ELSE docs

\* A call of a plotting function: the arguments are bound to the
\* parameters, then the body runs; a figure saved returns its path
plot(fn, kwargs) ==
    IF \/ ~(DOMAIN kwargs \subseteq PlotSignature(fn).params)
       \/ ~(PlotSignature(fn).required \subseteq DOMAIN kwargs)
    THEN Raised("TypeError")
    ELSE IF kwargs.docs = <<>> THEN Returned(None)
    ELSE IF fn \in ReturnsWhenFilteredEmpty /\ InYear(kwargs.docs, kwargs) = <<>>
    THEN Returned(None)
    ELSE Returned(<<"figures/" \o fn \o ".png">>)

\* A call of a pipeline by name with keyword arguments
CallPipeline(fn, args) ==
    CASE fn = "avg_pollutant_daily" ->
             avg_pollutant_daily(args.parameter, args.location_id)
      [] fn = "pollution_hotspots" ->
             pollution_hotspots(args.parameter, args.min_readings)
      [] fn = "days_exceeding_threshold" ->
             days_exceeding_threshold(args.location_id, args.parameter,
                                      args.safe_limit)
      [] fn = "sensor_uptime_for_location" ->
             sensor_uptime_for_location(args.location_id)
      [] fn = "compare_locations_daily" ->
             compare_locations_daily(args.loc1, args.loc2, args.parameter)
      [] fn = "avg_pollutant_daily_global" ->
             avg_pollutant_daily_global(args.parameter)

\* The statements of analytics.main, in order.  lookups lists the keys
\* LOCATIONS[...] is subscripted with while the arguments are evaluated;
\* docs names the local variable a plot or a save is given.
CallStatement(target, fn, lookups, args) ==
    [kind |-> "call", target |-> target, fn |-> fn, lookups |-> lookups,
     args |-> args]

SaveStatement(name, data) ==
    [kind |-> "save", name |-> name, data |-> data, lookups |-> <<>>]

PlotStatement(fn, docs, lookups, kwargs) ==
    [kind |-> "plot", fn |-> fn, docs |-> docs, lookups |-> lookups,
     kwargs |-> kwargs]

MainBody ==
    << CallStatement("daily_749_pm25", "avg_pollutant_daily", <<"Saint John">>,
                     [parameter |-> PM25, location_id |-> 749]),
       SaveStatement("daily_avg_749_pm25", "daily_749_pm25"),
       PlotStatement("plot_avg_pollutant_daily", "daily_749_pm25",
                     <<"Saint John">>,
                     [parameter |-> PM25, location_id |-> 749, year |-> 2016,
                      show |-> FALSE]),
       CallStatement("hotspots_pm25", "pollution_hotspots", <<>>,
                     [parameter |-> PM25, min_readings |-> 24]),
       PlotStatement("plot_pollution_hotspots", "hotspots_pm25", <<>>,
                     [parameter |-> PM25, top_n |-> 3, show |-> FALSE]),
       SaveStatement("hotspots_pm25", "hotspots_pm25"),
       CallStatement("days_exceed_749_pm25", "days_exceeding_threshold",
                     <<"Saint John">>,
                     [location_id |-> 749, parameter |-> PM25,
                      safe_limit |-> 200]),
       SaveStatement("days_exceed_749_pm25", "days_exceed_749_pm25"),
       PlotStatement("plot_days_exceeding_threshold", "days_exceed_749_pm25",
                     <<"Saint John">>,
                     [parameter |-> PM25, location_id |-> 749,
                      safe_limit |-> 200, year |-> 2016, show |-> FALSE]),
       PlotStatement("plot_days_exceeding_threshold", "days_exceed_749_pm25",
                     <<"Saint John">>,
                     [parameter |-> PM25, location_id |-> 749,
                      safe_limit |-> 200, show |-> FALSE]),
       CallStatement("uptime_749", "sensor_uptime_for_location",
                     <<"Saint John">>, [location_id |-> 749]),
       SaveStatement("uptime_749", "uptime_749"),
       PlotStatement("plot_sensor_uptime_for_location", "uptime_749",
                     <<"Saint John">>,
                     [location_id |-> 749, show |-> FALSE]),
       CallStatement("compare_749_8132", "compare_locations_daily",
                     <<"Saint John", "Fredericton">>,
                     [loc1 |-> 749, loc2 |-> 8132, parameter |-> PM25]),
       SaveStatement("compare_749_8132", "compare_749_8132"),
       PlotStatement("plot_compare_locations_daily", "compare_749_8132",
                     <<"Saint John", "Fredericton">>,
                     [loc1 |-> 749, loc2 |-> 8132, parameter |-> PM25,
                      show |-> FALSE]),
       PlotStatement("plot_compare_locations_daily", "compare_749_8132",
                     <<"Saint John", "Fredericton">>,
                     [loc1 |-> 749, loc2 |-> 8132, parameter |-> PM25,
                      year |-> 2020, show |-> FALSE]),
       CallStatement("compare_749_10907", "compare_locations_daily",
                     <<"Saint John", "India - Gwalior">>,
                     [loc1 |-> 749, loc2 |-> 10907, parameter |-> PM25]),
       SaveStatement("compare_749_10907", "compare_749_10907"),
       PlotStatement("plot_compare_locations_daily", "compare_749_10907",
                     <<"Saint John", "India - Gwalior">>,
                     [loc1 |-> 749, loc2 |-> 10907, parameter |-> PM25,
                      show |-> FALSE]),
       PlotStatement("plot_compare_locations_daily", "compare_749_10907",
                     <<"Saint John", "India - Gwalior">>,
                     [loc1 |-> 749, loc2 |-> 10907, parameter |-> PM25,
                      year |-> 2020, show |-> FALSE]),
       CallStatement("daily_avg_pm25_global", "avg_pollutant_daily_global",
                     <<>>, [parameter |-> PM25]),
       SaveStatement("daily_avg_pm25_global", "daily_avg_pm25_global"),
       PlotStatement("plot_avg_pollutant_daily_global", "daily_avg_pm25_global",
                     <<>>, [parameter |-> PM25, show |-> FALSE]),
       PlotStatement("plot_avg_pollutant_daily_global", "daily_avg_pm25_global",
                     <<>>,
                     [parameter |-> PM25, year |-> 2019, show |-> FALSE]) >>

\* LOCATIONS[key] raises KeyError for a key the dict does not hold
RaisesKeyError(statement) ==
    \E i \in 1..Len(statement.lookups) :
        \A j \in 1..Len(LOCATIONS) : LOCATIONS[j].name # statement.lookups[i]

----------------------------------------------------------------------------
(* analytics.main on a loaded store (specification SpecMain)               *)

InitMain ==
    /\ StoreLoaded
    /\ main_pc = 0
    /\ main_state = "running"
    /\ main_env = <<>>
    /\ saved = <<>>
    /\ AnalyticsIdle
    /\ OrchestratorIdle
    /\ PlotIdle
    /\ UpstreamIdle

NextStatement == MainBody[main_pc + 1]

\* The value a local variable of main was assigned
EnvValue(name) ==
    main_env[CHOOSE i \in 1..Len(main_env) : main_env[i].name = name].value

\* x = pipeline(...): the arguments are evaluated, the pipeline is called
MainCall ==
    /\ main_state = "running"
    /\ main_pc < Len(MainBody)
    /\ NextStatement.kind = "call"
    /\ IF RaisesKeyError(NextStatement)
       THEN /\ main_state' = "KeyError"
            /\ UNCHANGED <<main_pc, main_env>>
       ELSE \E out \in CallPipeline(NextStatement.fn, NextStatement.args) :
                IF out.raised # <<>>
                THEN /\ main_state' = out.raised[1]
                     /\ UNCHANGED <<main_pc, main_env>>
                ELSE /\ main_env' = Append(main_env,
                                           [name |-> NextStatement.target,
                                            value |-> out.returned])
                     /\ main_pc' = main_pc + 1
                     /\ UNCHANGED main_state
    /\ UNCHANGED saved
    /\ UNCHANGED <<storeVars, analyticsVars, orchestratorVars, plotVars>>
    /\ UNCHANGED upstreamVars

\* save_results(name=..., data=...)
MainSave ==
    /\ main_state = "running"
    /\ main_pc < Len(MainBody)
    /\ NextStatement.kind = "save"
    /\ saved' = Append(saved, [name |-> NextStatement.name,
                               data |-> EnvValue(NextStatement.data)])
    /\ main_pc' = main_pc + 1
    /\ UNCHANGED <<main_state, main_env>>
    /\ UNCHANGED <<storeVars, analyticsVars, orchestratorVars, plotVars>>
    /\ UNCHANGED upstreamVars

\* visualizations.plot_...(docs=..., ...); after the last of them main
\* prints "Analytics complete."
MainPlot ==
    /\ main_state = "running"
    /\ main_pc < Len(MainBody)
    /\ NextStatement.kind = "plot"
    /\ IF RaisesKeyError(NextStatement)
       THEN /\ main_state' = "KeyError"
            /\ UNCHANGED main_pc
       ELSE LET out == plot(NextStatement.fn,
                            NextStatement.kwargs
                                @@ [docs |-> EnvValue(NextStatement.docs)])
            IN  IF out.raised # <<>>
                THEN /\ main_state' = out.raised[1]
                     /\ UNCHANGED main_pc
                ELSE /\ main_pc' = main_pc + 1
                     /\ main_state' = IF main_pc + 1 = Len(MainBody)
                                      THEN "complete" ELSE main_state
    /\ UNCHANGED <<main_env, saved>>
    /\ UNCHANGED <<storeVars, analyticsVars, orchestratorVars, plotVars>>
    /\ UNCHANGED upstreamVars

NextMain ==
    \/ MainCall
    \/ MainSave
    \/ MainPlot

SpecMain == InitMain /\ [][NextMain]_vars

----------------------------------------------------------------------------
(* Calls of the plotting functions with the arguments analytics.main       *)
(* passes (specification SpecPlot)                                         *)

\* A plotting function and its variant with the year parameters
YearVariants(fn) ==
    CASE fn = "plot_avg_pollutant_daily" -> {fn, "plot_avg_pollutant_daily2"}
      [] fn = "plot_days_exceeding_threshold" ->
             {fn, "plot_days_exceeding_threshold2"}
      [] fn = "plot_compare_locations_daily" ->
             {fn, "plot_compare_locations_daily2"}
      [] fn = "plot_avg_pollutant_daily_global" ->
             {fn, "plot_avg_pollutant_daily_global2"}
      [] OTHER -> {fn}

\* The statement of main that assigns a local variable
AssignmentOf(name) ==
    MainBody[CHOOSE k \in 1..Len(MainBody) :
                 MainBody[k].kind = "call" /\ MainBody[k].target = name]

\* The plot statements of main whose arguments can be evaluated
PlotStatements ==
    {k \in 1..Len(MainBody) :
        MainBody[k].kind = "plot" /\ ~RaisesKeyError(MainBody[k])}

InitPlot ==
    /\ StoreLoaded
    /\ \E k \in PlotStatements :
          \E fn \in YearVariants(MainBody[k].fn) :
              \E out \in CallPipeline(AssignmentOf(MainBody[k].docs).fn,
                                      AssignmentOf(MainBody[k].docs).args) :
                  plot_call = [fn |-> fn,
                               kwargs |-> MainBody[k].kwargs
                                              @@ [docs |-> out.returned]]
    /\ plot_return = <<>>
    /\ AnalyticsIdle
    /\ OrchestratorIdle
    /\ MainIdle
    /\ UpstreamIdle

PlotCall ==
    /\ plot_return = <<>>
    /\ plot_return' = <<plot(plot_call.fn, plot_call.kwargs)>>
    /\ UNCHANGED plot_call
    /\ UNCHANGED <<storeVars, analyticsVars, orchestratorVars, mainVars>>
    /\ UNCHANGED upstreamVars

NextPlot == PlotCall

SpecPlot == InitPlot /\ [][NextPlot]_vars

----------------------------------------------------------------------------
(* Properties of plotting and of analytics.main                            *)

\* C18: a plotting function called with an empty result set and the
\* arguments analytics.main passes (parameter, location ids, threshold,
\* year) skips rendering and returns None; it does not raise.
C18_PlottingToleratesEmpty ==
    (plot_return # <<>> /\ plot_call.kwargs.docs = <<>>) =>
        plot_return[1] = Returned(None)

\* The names main gives save_results, in order
SavedNames == [i \in 1..Len(saved) |-> saved[i].name]

AnalyticNames ==
    <<"daily_avg_749_pm25", "hotspots_pm25", "days_exceed_749_pm25",
      "uptime_749", "compare_749_8132", "compare_749_10907",
      "daily_avg_pm25_global">>

\* C19: with every query succeeding, analytics.main runs its analytics in
\* order, saves one result file for each, and prints "Analytics complete.";
\* no LOCATIONS lookup and no plotting call of main raises.
C19_AnalyticsRunCompletes ==
    /\ main_state \in {"idle", "running", "complete"}
    /\ Len(saved) <= Len(AnalyticNames)
    /\ SavedNames = SubSeq(AnalyticNames, 1, Len(saved))
    /\ main_state = "complete" => SavedNames = AnalyticNames

----------------------------------------------------------------------------
(* Consistency of sensors and measurements (specification Spec)            *)

\* The rows of all csv files of the run that have no defect
SoundRowsOfRun ==
    UNION {Range(SoundRows(csv_files[f])) : f \in 1..Len(csv_files)}

\* Every sensor id comes with one location id and one parameter
ConsistentSensorIds ==
    \A a, b \in SoundRowsOfRun :
        a.sensors_id = b.sensors_id =>
            a.location_id = b.location_id /\ a.parameter = b.parameter

\* The sensor registered under the sensorId of each measurement has the
\* measurement's locationId and parameter, so the unit lookup for the
\* measurement's (parameter, locationId) finds a sensor
SensorsMatchMeasurements ==
    \A i \in 1..Len(measurements) :
        /\ measurements[i].sensorId \in SensorIds(sensors)
        /\ SensorOf(sensors, measurements[i].sensorId).locationId =
               measurements[i].locationId
        /\ SensorOf(sensors, measurements[i].sensorId).parameter =
               measurements[i].parameter
        /\ \E k \in 1..Len(sensors) :
               /\ sensors[k].parameter = measurements[i].parameter
               /\ sensors[k].locationId = measurements[i].locationId

\* C20 as claimed: after any sequence of process_csv calls the sensor
\* registered under a measurement's sensorId has the measurement's
\* locationId and parameter, so that a (parameter, locationId) pair with
\* stored measurements has a matching sensor.
C20_SensorMeasurementConsistency == SensorsMatchMeasurements

\* C20, amended: the same, for runs over csv files in which every sensor id
\* occurs with a single location id and a single parameter.
C20_ConsistentForConsistentSensorIds ==
    ConsistentSensorIds => SensorsMatchMeasurements

\* Two files were processed that name sensor 10 of location 1 with different
\* location names and units; both measurements are stored
C20_Witness ==
    /\ ConsistentSensorIds
    /\ pc = "done"
    /\ Len(csv_files) = 2
    /\ Len(measurements) = 2
    /\ measurements[1].sensorId = measurements[2].sensorId
    /\ measurements[1].date.utc # measurements[2].date.utc \/
           measurements[1].value # measurements[2].value
    /\ Len(sensors) = 1

====
